---- MODULE Spec2Model ----
(***************************************************************************)
(* A model of the asset download helpers of vsce-helper:                   *)
(*   - downloadFile (src/src/file-download.ts): the redirect-following     *)
(*     HTTPS download into a write stream;                                 *)
(*   - the GitHub assets (github-assets.ts): release, repository and       *)
(*     workflow assets with their memoized lookups;                        *)
(*   - the archive/web/local file assets (src/src/file-assets.ts).         *)
(* Strings that the code takes apart or puts together (tags, patterns,     *)
(* cache ids) are sequences of one-character strings.                      *)
(***************************************************************************)
EXTENDS Integers, Sequences, FiniteSets, TLC

\* ------------------------------------------------------------------ bounds
\* Redirects one downloadFile chain may follow before the server must answer
\* with something else.
MaxHops == 2
\* Chunks in a response body.
MaxBody == 2

VARIABLES
    calls,      \* downloadFile: the chain of invocations, calls[1] the caller's
    file,       \* downloadFile: the file at outputPath
    writes,     \* downloadFile: every chunk written to outputPath, with its hop
    assets,     \* the asset instances: their constructor arguments
    obj,        \* the asset instances: their private fields
    OCTOKIT,    \* GitHubAsset.OCTOKIT, the clients by token
    frames,     \* the invocations of version, cacheId and copyTo
    api,        \* the requests sent to the GitHub API, in order
    github,     \* the repository at GitHub: its releases and workflow runs
    budget,     \* invocations that may still be started
    overlapped, \* whether an invocation started while another was running
    disposing,  \* dispose(): the instances being disposed, innermost last
    disposed,   \* the disposables run so far, in order
    markers,    \* the Downloader's cache marker of the tool
    requests,   \* the Downloader's download requests for the tool, in order
    batch       \* the Downloader's batch run: its per-tool operations

dlVars == <<calls, file, writes>>
ghVars == <<assets, obj, OCTOKIT, frames, api, github, budget, overlapped, disposing, disposed>>
toolVars == <<markers, requests, batch>>
vars == <<calls, file, writes, assets, obj, OCTOKIT, frames, api, github, budget,
          overlapped, disposing, disposed, markers, requests, batch>>

\* =========================================================================
\* downloadFile (src/src/file-download.ts)
\* =========================================================================

\* res.statusCode is `number | undefined`.
StatusUndefined == -1
\* A header, a status message or a location that is not there.
Absent == "<absent>"

OutputPath == "/tmp/out.bin"
URLs == {"https://a.test/f", "https://b.test/f"}

HeaderNames == {"Accept", "User-Agent", "authorization"}
NoHeaders == [n \in HeaderNames |-> Absent]
\* The defaults of requestOptions.headers.
DefaultHeaders ==
    [n \in HeaderNames |->
        CASE n = "Accept" -> "application/octet-stream"
          [] n = "User-Agent" -> "vsce-helpers"
          [] OTHER -> Absent]

\* requestOptions.headers: the defaults, overridden by the headers passed in.
RequestOptions(headers) ==
    [n \in HeaderNames |-> IF headers[n] # Absent THEN headers[n] ELSE DefaultHeaders[n]]

\* GitHubAsset.downloadFile: a bearer header when the asset has a token.
GitHubHeaders(token) ==
    IF token # Absent /\ token # ""
    THEN [NoHeaders EXCEPT !["authorization"] = "Bearer " \o token]
    ELSE NoHeaders

\* The headers a caller may pass: none, those of a GitHub asset with a token,
\* and custom ones of a WebFileAsset.
CallerHeaders ==
    { NoHeaders, GitHubHeaders("tok"), GitHubHeaders(Absent),
      [NoHeaders EXCEPT !["Accept"] = "application/json"] }

RECURSIVE SeqsUpTo(_, _)
\* All sequences over S of length at most n.
SeqsUpTo(S, n) ==
    IF n = 0 THEN { <<>> }
    ELSE LET shorter == SeqsUpTo(S, n - 1)
         IN shorter \cup { Append(s, x) : s \in shorter, x \in S }

Bodies == SeqsUpTo({"a", "b"}, MaxBody)

\* The status message the server sends with a status; 302 comes without one.
StatusMessageOf(code) ==
    CASE code = 200 -> "OK"
      [] code = 301 -> "Moved Permanently"
      [] code = 404 -> "Not Found"
      [] code = 300 -> "Multiple Choices"
      [] OTHER -> Absent

Response(code, location, body) ==
    [statusCode |-> code, statusMessage |-> StatusMessageOf(code),
     headers |-> [location |-> location], body |-> body]

\* What a server may answer: a 2xx (or a response without a status) with any
\* body, a 301/302 with or without a usable location, any other status.
Responses ==
         { Response(c, Absent, b) : c \in {200, 299}, b \in Bodies }
    \cup { Response(StatusUndefined, Absent, <<"a">>) }
    \cup { Response(c, l, <<"r">>) : c \in {301, 302}, l \in URLs \cup {Absent, ""} }
    \cup { Response(c, Absent, <<"e">>) : c \in {199, 300, 404} }
    \cup { Response(404, "https://b.test/f", <<"e">>) }

NoResponse == Response(StatusUndefined, Absent, <<>>)

\* JavaScript truthiness of an optional string.
Truthy(s) == s # Absent /\ s # ""

\* line 34: the status is there and outside 200..299.
IsFailureStatus(res) ==
    res.statusCode # StatusUndefined /\ (res.statusCode < 200 \/ res.statusCode >= 300)

\* A 301/302 taken for a redirect whether or not it names a location.
IsRedirectAnyLocation(res) == res.statusCode = 301 \/ res.statusCode = 302

\* line 36: a redirect that can be followed.
IsRedirect(res) ==
    (res.statusCode = 301 \/ res.statusCode = 302) /\ Truthy(res.headers.location)

\* The recursive call handing its own headers on.
ForwardHeaders(headers) == headers

\* line 37: the recursive call passes url and outputPath only, so its headers
\* parameter takes its default, {}.
RedirectHeaders(headers) == NoHeaders

\* lines 39-40: JSON.stringify(res.headers) keeps the headers that are there.
JSONstringify(headers) ==
    { <<n, headers[n]>> : n \in { m \in DOMAIN headers : headers[m] # Absent } }

\* line 40: the parts of the error message, in order:
\* `Status Code: ${statusCode}\n${url}: ${statusMessage ?? ''}\n${headers}`.
StatusErrorMessage(url, res) ==
    [prefix |-> "Status Code: ", statusCode |-> res.statusCode, url |-> url,
     statusMessage |-> IF res.statusMessage = Absent THEN "" ELSE res.statusMessage,
     headers |-> JSONstringify(res.headers)]

NoMessage ==
    [prefix |-> "", statusCode |-> StatusUndefined, url |-> "", statusMessage |-> "",
     headers |-> {}]

Pending == [kind |-> "pending", value |-> "", error |-> "", message |-> NoMessage]
Resolved(v) == [kind |-> "resolved", value |-> v, error |-> "", message |-> NoMessage]
Rejected(e, m) == [kind |-> "rejected", value |-> "", error |-> e, message |-> m]

\* One invocation of downloadFile(url, outputPath, headers): the promise
\* executor has run, the request is on its way.
Invocation(url, headers) ==
    [url |-> url, headers |-> headers, requestHeaders |-> RequestOptions(headers),
     state |-> "requested", hasRes |-> FALSE, res |-> NoResponse,
     stream |-> "none", written |-> 0, promise |-> Pending]

NoFile == [exists |-> FALSE, data |-> <<>>]

DLInit ==
    /\ \E u \in URLs, h \in CallerHeaders : calls = << Invocation(u, h) >>
    /\ file \in { NoFile, [exists |-> TRUE, data |-> <<"old">>] }
    /\ writes = <<>>

\* resolve/reject settle a promise once; later calls change nothing.
Settle(c, outcome) ==
    IF c.promise.kind = "pending" THEN [c EXCEPT !.promise = outcome] ELSE c

\* lines 33-53: the response callback of invocation i.
DLResponse(i, res) ==
    /\ i \in 1..Len(calls)
    /\ calls[i].state = "requested"
    /\ LET c == [calls[i] EXCEPT !.hasRes = TRUE, !.res = res] IN
       IF IsFailureStatus(res)
       THEN IF IsRedirect(res)
            THEN /\ Len(calls) <= MaxHops
                 /\ calls' = Append([calls EXCEPT ![i] = [c EXCEPT !.state = "redirected"]],
                                    Invocation(res.headers.location,
                                               RedirectHeaders(calls[i].headers)))
            ELSE calls' = [calls EXCEPT ![i] =
                     Settle([c EXCEPT !.state = "settled"],
                            Rejected("status", StatusErrorMessage(calls[i].url, res)))]
       ELSE calls' = [calls EXCEPT ![i] = [c EXCEPT !.state = "streaming", !.stream = "opening"]]
    /\ UNCHANGED <<file, writes>>
    /\ UNCHANGED ghVars
    /\ UNCHANGED toolVars

\* line 56: the request fails before a response arrives.
DLRequestError(i) ==
    /\ i \in 1..Len(calls)
    /\ calls[i].state = "requested"
    /\ calls' = [calls EXCEPT ![i] =
            Settle([calls[i] EXCEPT !.state = "settled"], Rejected("request", NoMessage))]
    /\ UNCHANGED <<file, writes>>
    /\ UNCHANGED ghVars
    /\ UNCHANGED toolVars

\* line 43: createWriteStream(outputPath) opens the file for writing, which
\* creates or truncates it.
DLOpen(i) ==
    /\ i \in 1..Len(calls)
    /\ calls[i].state = "streaming" /\ calls[i].stream = "opening"
    /\ calls' = [calls EXCEPT ![i].stream = "open"]
    /\ file' = [exists |-> TRUE, data |-> <<>>]
    /\ UNCHANGED writes
    /\ UNCHANGED ghVars
    /\ UNCHANGED toolVars

\* line 44: res.pipe(writeStream) hands the body over chunk by chunk.
DLPipe(i) ==
    /\ i \in 1..Len(calls)
    /\ calls[i].state = "streaming" /\ calls[i].stream = "open"
    /\ calls[i].written < Len(calls[i].res.body)
    /\ LET chunk == calls[i].res.body[calls[i].written + 1] IN
         /\ file' = [file EXCEPT !.data = Append(file.data, chunk)]
         /\ writes' = Append(writes, [hop |-> i, chunk |-> chunk])
    /\ calls' = [calls EXCEPT ![i].written = calls[i].written + 1]
    /\ UNCHANGED ghVars
    /\ UNCHANGED toolVars

\* line 46: the write stream fails (the file cannot be opened or written).
DLWriteError(i) ==
    /\ i \in 1..Len(calls)
    /\ calls[i].state = "streaming" /\ calls[i].stream \in {"opening", "open"}
    /\ calls' = [calls EXCEPT ![i] =
            Settle([calls[i] EXCEPT !.state = "settled", !.stream = "error"],
                   Rejected("write", NoMessage))]
    /\ UNCHANGED <<file, writes>>
    /\ UNCHANGED ghVars
    /\ UNCHANGED toolVars

\* Resolving as soon as the stream is open, without waiting for 'finish'.
DLFinishEarly(i) ==
    /\ i \in 1..Len(calls)
    /\ calls[i].state = "streaming" /\ calls[i].stream = "open"
    /\ calls' = [calls EXCEPT ![i] =
            Settle([calls[i] EXCEPT !.state = "settled", !.stream = "finished"],
                   Resolved(OutputPath))]
    /\ UNCHANGED <<file, writes>>
    /\ UNCHANGED ghVars
    /\ UNCHANGED toolVars

\* lines 48-51: 'finish', once the body has ended and every chunk is flushed.
DLFinish(i) ==
    /\ i \in 1..Len(calls)
    /\ calls[i].state = "streaming" /\ calls[i].stream = "open"
    /\ calls[i].written = Len(calls[i].res.body)
    /\ calls' = [calls EXCEPT ![i] =
            Settle([calls[i] EXCEPT !.state = "settled", !.stream = "finished"],
                   Resolved(OutputPath))]
    /\ UNCHANGED <<file, writes>>
    /\ UNCHANGED ghVars
    /\ UNCHANGED toolVars

\* .then(resolve, resolve): a failed follow-up taken for a success.
DLSettleAlwaysResolve(i) ==
    /\ i \in 1..(Len(calls) - 1)
    /\ calls[i].state = "redirected"
    /\ calls[i + 1].promise.kind # "pending"
    /\ calls' = [calls EXCEPT ![i] =
            Settle([calls[i] EXCEPT !.state = "settled"], Resolved(OutputPath))]
    /\ UNCHANGED <<file, writes>>
    /\ UNCHANGED ghVars
    /\ UNCHANGED toolVars

\* line 37: .then(resolve, reject) hands the follow-up's outcome to the
\* promise of the invocation that was redirected.
DLSettleFromRedirect(i) ==
    /\ i \in 1..(Len(calls) - 1)
    /\ calls[i].state = "redirected"
    /\ calls[i + 1].promise.kind # "pending"
    /\ calls' = [calls EXCEPT ![i] =
            Settle([calls[i] EXCEPT !.state = "settled"], calls[i + 1].promise)]
    /\ UNCHANGED <<file, writes>>
    /\ UNCHANGED ghVars
    /\ UNCHANGED toolVars

Next ==
    \/ \E i \in 1..(MaxHops + 1), res \in Responses : DLResponse(i, res)
    \/ \E i \in 1..(MaxHops + 1) : DLRequestError(i)
    \/ \E i \in 1..(MaxHops + 1) : DLOpen(i)
    \/ \E i \in 1..(MaxHops + 1) : DLPipe(i)
    \/ \E i \in 1..(MaxHops + 1) : DLWriteError(i)
    \/ \E i \in 1..(MaxHops + 1) : DLFinish(i)
    \/ \E i \in 1..(MaxHops + 1) : DLSettleFromRedirect(i)

\* ------------------------------------------------------- downloadFile: claims

Is2xx(c) == c.hasRes /\ c.res.statusCode >= 200 /\ c.res.statusCode <= 299
Is3xxWithLocation(c) ==
    /\ c.hasRes
    /\ c.res.statusCode \in {301, 302}
    /\ c.res.headers.location \notin {Absent, ""}

\* C1: an invocation answered with a 2xx status resolves only once its write
\* stream has finished, resolves with outputPath, and outputPath then holds
\* exactly the response body (whatever the file held before); if it rejects,
\* it is the write stream that failed.
C1_DownloadWritesBody ==
    \A i \in 1..Len(calls) :
        Is2xx(calls[i]) =>
            /\ calls[i].promise.kind = "resolved" =>
                  /\ calls[i].promise.value = OutputPath
                  /\ calls[i].stream = "finished"
                  /\ calls[i].written = Len(calls[i].res.body)
                  /\ file = [exists |-> TRUE, data |-> calls[i].res.body]
            /\ calls[i].promise.kind = "rejected" => calls[i].promise.error = "write"
            /\ calls[i].stream = "finished" => calls[i].promise.kind = "resolved"

C1_Witness ==
    /\ Is2xx(calls[1])
    /\ calls[1].promise.kind = "resolved"
    /\ Len(calls[1].res.body) = 2
    /\ file.data = calls[1].res.body

\* C2: a 301/302 with a location is answered by a follow-up request to that
\* location and by nothing else (no stream, no write); the redirected
\* invocation settles only with the follow-up's outcome; and when the caller's
\* promise resolves at the end of a chain of redirects, outputPath holds the
\* body of the last response, which is the only one written.
C2_RedirectFollowed ==
    /\ \A i \in 1..Len(calls) :
          Is3xxWithLocation(calls[i]) =>
              /\ i < Len(calls)
              /\ calls[i + 1].url = calls[i].res.headers.location
              /\ calls[i].stream = "none" /\ calls[i].written = 0
              /\ \A k \in 1..Len(writes) : writes[k].hop # i
              /\ calls[i].promise.kind # "pending" => calls[i].promise = calls[i + 1].promise
    /\ calls[1].promise.kind = "resolved" =>
          LET n == Len(calls) IN
              /\ calls[1].promise.value = OutputPath
              /\ \A i \in 1..(n - 1) : Is3xxWithLocation(calls[i])
              /\ calls[n].stream = "finished"
              /\ file = [exists |-> TRUE, data |-> calls[n].res.body]
              /\ writes = [k \in 1..Len(calls[n].res.body) |->
                              [hop |-> n, chunk |-> calls[n].res.body[k]]]

C2_Witness ==
    /\ Len(calls) = 3
    /\ calls[1].res.statusCode = 301 /\ calls[2].res.statusCode = 302
    /\ calls[1].promise.kind = "resolved"
    /\ file.data = calls[3].res.body /\ Len(file.data) = 2

\* C3: a response whose status is outside 200..299 and that is no 301/302
\* with a location rejects the invocation, never resolves it, and the error
\* message holds the status code, the requested URL, the status message and
\* the response headers.
C3_FailureStatusRejects ==
    \A i \in 1..Len(calls) :
        LET c == calls[i] IN
        ( /\ c.hasRes
          /\ c.res.statusCode # StatusUndefined
          /\ (c.res.statusCode < 200 \/ c.res.statusCode > 299)
          /\ ~Is3xxWithLocation(c) ) =>
            /\ c.promise.kind = "rejected"
            /\ c.promise.error = "status"
            /\ c.promise.message.prefix = "Status Code: "
            /\ c.promise.message.statusCode = c.res.statusCode
            /\ c.promise.message.url = c.url
            /\ c.res.statusMessage # Absent =>
                   c.promise.message.statusMessage = c.res.statusMessage
            /\ \A n \in DOMAIN c.res.headers :
                   c.res.headers[n] # Absent =>
                       <<n, c.res.headers[n]>> \in c.promise.message.headers
            /\ i = Len(calls)

C3_Witness ==
    /\ Len(calls) = 2
    /\ calls[2].res.statusCode = 301 /\ calls[2].res.headers.location = Absent
    /\ calls[2].hasRes
    /\ calls[2].promise.kind = "rejected"
    /\ calls[1].promise.kind = "rejected"
    /\ calls[1].promise.message.statusCode = 301

MaxReleases == 3

\* A value that is `undefined` where a string may stand.
Undefined == << "<undefined>" >>

\* Text is a sequence of one-character strings.
V200 == << "v", "2", ".", "0", ".", "0" >>
V150 == << "v", "1", ".", "5", ".", "0" >>
V100 == << "v", "1", ".", "0", ".", "0" >>
V1150 == << "v", "1", "1", ".", "5", ".", "0" >>
Tags == { V200, V150, V100, V1150 }

DigitChars == { "0", "1", "2", "3", "4", "5", "6", "7", "8", "9" }

\* A regular expression is a sequence of items: a literal character, `.`,
\* `\d`, an optional literal `c?`, `(`, `)`, `^`, `$`.
Lit(c) == [t |-> "lit", c |-> c]
AnyChar == [t |-> "any", c |-> "."]
DigitClass == [t |-> "digit", c |-> "\\d"]
OptLit(c) == [t |-> "opt", c |-> c]
GroupOpen == [t |-> "open", c |-> "("]
GroupClose == [t |-> "close", c |-> ")"]
Bol == [t |-> "bol", c |-> "^"]
Eol == [t |-> "eol", c |-> "$"]

NoMatch == [ok |-> FALSE, end |-> 0, gFrom |-> 0, gTo |-> 0]

RECURSIVE MatchFrom(_, _, _, _, _, _)
\* The backtracking match of items i.. of re against s from position p, the
\* group's bounds so far being gFrom, gTo: the first match in the order a
\* JavaScript RegExp tries them (an optional item is taken first).
MatchFrom(re, i, s, p, gFrom, gTo) ==
    IF i > Len(re) THEN [ok |-> TRUE, end |-> p, gFrom |-> gFrom, gTo |-> gTo]
    ELSE LET it == re[i]
             rest(q) == MatchFrom(re, i + 1, s, q, gFrom, gTo)
         IN CASE it.t = "lit" ->
                    IF p <= Len(s) /\ s[p] = it.c THEN rest(p + 1) ELSE NoMatch
              [] it.t = "any" ->
                    IF p <= Len(s) THEN rest(p + 1) ELSE NoMatch
              [] it.t = "digit" ->
                    IF p <= Len(s) /\ s[p] \in DigitChars THEN rest(p + 1) ELSE NoMatch
              [] it.t = "opt" ->
                    IF p <= Len(s) /\ s[p] = it.c /\ rest(p + 1).ok
                    THEN rest(p + 1) ELSE rest(p)
              [] it.t = "open" -> MatchFrom(re, i + 1, s, p, p, gTo)
              [] it.t = "close" -> MatchFrom(re, i + 1, s, p, gFrom, p)
              [] it.t = "bol" -> IF p = 1 THEN rest(p) ELSE NoMatch
              [] it.t = "eol" -> IF p = Len(s) + 1 THEN rest(p) ELSE NoMatch

RECURSIVE ExecFrom(_, _, _)
\* RegExp.prototype.exec without the g flag: the match at the leftmost
\* position that has one.
ExecFrom(re, s, p) ==
    IF p > Len(s) + 1 THEN NoMatch
    ELSE LET m == MatchFrom(re, 1, s, p, 0, 0)
         IN IF m.ok THEN m ELSE ExecFrom(re, s, p + 1)

\* String.prototype.match(regex): the match array, or null.
StringMatch(s, re) == ExecFrom(re, s, 1)

\* match?.[1]: the text of the first capture group, undefined without a
\* match or a group.
Group1(s, m) ==
    IF m.ok /\ m.gFrom > 0 /\ m.gTo > 0 THEN SubSeq(s, m.gFrom, m.gTo - 1) ELSE Undefined

\* new RegExp(text) for a text of letters, digits, `-` and `.`: a dot stands
\* for any character, every other character for itself.
ParsePattern(text) ==
    [k \in 1..Len(text) |-> IF text[k] = "." THEN AnyChar ELSE Lit(text[k])]

RECURSIVE RegexSourceFrom(_, _)
RegexSourceFrom(re, k) ==
    IF k > Len(re) THEN << >>
    ELSE ( CASE re[k].t = "lit" -> IF re[k].c = "." THEN << "\\", "." >> ELSE << re[k].c >>
             [] re[k].t = "opt" -> << re[k].c, "?" >>
             [] re[k].t = "digit" -> << "\\", "d" >>
             [] OTHER -> << re[k].c >> ) \o RegexSourceFrom(re, k + 1)

\* RegExp.prototype.source.
RegexSource(re) == RegexSourceFrom(re, 1)

\* lines 137-139, tagRegex: a string T stands for new RegExp(`v?(${T})`), a
\* RegExp for itself.
TagRegex(tag) ==
    IF tag.isString
    THEN << OptLit("v"), GroupOpen >> \o ParsePattern(tag.text) \o << GroupClose >>
    ELSE tag.re

StringTag(text) == [isString |-> TRUE, text |-> text, re |-> <<>>]
RegExpTag(re) == [isString |-> FALSE, text |-> <<>>, re |-> re]

\* The tag arguments of a GitHubReleaseAsset: version strings, a RegExp with
\* a group (/^v(1\.\d\.0)$/) and one without (/v2/).
TagPatterns ==
    { StringTag(<< "1", ".", "5", ".", "0" >>),
      StringTag(<< "1", ".", "0", ".", "0" >>),
      StringTag(<< "3", ".", "0", ".", "0" >>),
      RegExpTag(<< Bol, Lit("v"), GroupOpen, Lit("1"), Lit("."), DigitClass, Lit("."),
                   Lit("0"), GroupClose, Eol >>),
      RegExpTag(<< Lit("v"), Lit("2") >>) }

RECURSIVE FindIndex(_, _, _)
\* Array.prototype.find over a listing: the first index from k whose tag
\* matches re, 0 (for undefined) when none does.
FindIndex(listing, re, k) ==
    IF k > Len(listing) THEN 0
    ELSE IF StringMatch(listing[k], re).ok THEN k
    ELSE FindIndex(listing, re, k + 1)

\* The last matching release instead of the first.
FindLastRelease(listing, tag) ==
    LET hits == { k \in 1..Len(listing) : StringMatch(listing[k], TagRegex(tag)).ok }
    IN IF hits = {} THEN 0 ELSE CHOOSE k \in hits : \A j \in hits : j <= k

\* line 127: response.data.find(r => r.tag_name.match(this.tagRegex)).
FindRelease(listing, tag) == FindIndex(listing, TagRegex(tag), 1)


\* =========================================================================
\* The asset instances (github-assets.ts, src/src/file-assets.ts)
\* =========================================================================

\* Invocations of version, cacheId and copyTo on one instance.
MaxCalls == 2

Owner == << "o" >>
Repo == << "r" >>
Slash == << "/" >>
At == << "@" >>
Dest == << "dest" >>
TempDir == << "tmp" >>

NoError == [kind |-> "", text |-> << >>]
Error(kind, text) == [kind |-> kind, text |-> text]

\* A promise of a text: pending, resolved with a value, rejected with an error.
PPending == [kind |-> "pending", value |-> << >>, error |-> NoError]
PResolved(v) == [kind |-> "resolved", value |-> v, error |-> NoError]
PRejected(e) == [kind |-> "rejected", value |-> << >>, error |-> e]

\* releasePromise, lastWorkflowRunPromise: undefined until the getter is first
\* read, then the promise chain getOctokit() -> request -> pick.  A resolved
\* chain holds the index of the release, or the id of the run (0: undefined).
MemoUndefined == [state |-> "undefined", value |-> 0, error |-> NoError]

NoTag == StringTag(<< >>)
AssetDefaults ==
    [kind |-> "", owner |-> Owner, repo |-> Repo, token |-> Absent, tag |-> NoTag,
     assetName |-> "", ref |-> "", workflow |-> "", artifactName |-> "",
     paths |-> 0, subject |-> 0, strip |-> 0, filename |-> "", version |-> Undefined]

\* new GitHubReleaseAsset(owner, repo, tag, assetName, { token }).
GitHubReleaseAsset(tag, assetName, token) ==
    [AssetDefaults EXCEPT !.kind = "release", !.tag = tag, !.assetName = assetName,
                          !.token = token]

\* new GitHubRepoAsset(owner, repo, { token, ref, path }): line 191, ref
\* defaults to 'main'; paths is the length of toArray(options?.path ?? ''),
\* lines 205-221 (1 without a path, 0 for an empty array).
GitHubRepoAsset(ref, paths, token) ==
    [AssetDefaults EXCEPT !.kind = "repo", !.ref = IF ref = Absent THEN "main" ELSE ref,
                          !.paths = paths, !.token = token]

\* new GitHubWorkflowAsset(owner, repo, workflow, artifactName, { token }).
GitHubWorkflowAsset(workflow, artifactName, token) ==
    [AssetDefaults EXCEPT !.kind = "workflow", !.workflow = workflow,
                          !.artifactName = artifactName, !.token = token]

\* new ArchiveFileAsset(subject, strip).
ArchiveFileAsset(subject, strip) ==
    [AssetDefaults EXCEPT !.kind = "archive", !.subject = subject, !.strip = strip]

\* new WebFileAsset(url, filename, version, headers).
WebFileAsset(filename, version) ==
    [AssetDefaults EXCEPT !.kind = "web", !.filename = filename, !.version = version]

\* new LocalFileAsset(filepath, targetName).
LocalFileAsset(targetName) ==
    [AssetDefaults EXCEPT !.kind = "local", !.filename = targetName]

\* An ArchiveFileAsset that does not register its subject.
NoConstructorDisposables(cfg) == << >>

\* What a constructor registers with addDisposable: file-assets.ts line 29,
\* the ArchiveFileAsset its subject; the other constructors nothing.
ConstructorDisposables(cfg) ==
    IF cfg.kind = "archive"
    THEN << [kind |-> "subject", path |-> << ToString(cfg.subject) >>] >>
    ELSE << >>

\* The private fields of a fresh instance.
NewObject(cfg) ==
    [releasePromise |-> MemoUndefined, lastWorkflowRunPromise |-> MemoUndefined,
     refs |-> {}, disposables |-> ConstructorDisposables(cfg)]

\* A workflow run at GitHub.
Run(id, status) == [id |-> id, status |-> status]
NoGitHub == [releases |-> << >>, runs |-> << >>]

NoFrames == << >>

\* No asset has been constructed and nothing is asked of any.
GHIdle ==
    /\ assets = << >>
    /\ obj = << >>
    /\ OCTOKIT = {}
    /\ frames = NoFrames
    /\ api = << >>
    /\ github = NoGitHub
    /\ budget = 0
    /\ overlapped = FALSE
    /\ disposing = << >>
    /\ disposed = << >>

DLIdle ==
    /\ calls = << >>
    /\ file = NoFile
    /\ writes = << >>

\* No marker is recorded and no download has been requested.
NoMarker == [cacheId |-> Undefined, version |-> Undefined]
\* No batch has been run.
NoBatch == [state |-> "idle", force |-> FALSE, ops |-> << >>, failures |-> {}]
ToolIdle ==
    /\ markers = NoMarker
    /\ requests = << >>
    /\ batch = NoBatch


\* ------------------------------------------------------------ GitHubAsset

\* ghToken ?? ''.
TokenKey(token) == IF token = Absent THEN "" ELSE token

\* A getOctokit that makes a client at every call and registers it.
GetOctokitAlwaysNew(registry, token) ==
    { e \in registry : e.key # TokenKey(token) }
        \cup { [key |-> TokenKey(token), client |-> Cardinality(registry) + 1] }

\* lines 59-62, getOctokit after `await import('node-fetch')`: the client
\* registered for the token, a new one being registered when there is none.
GetOctokit(registry, token) ==
    IF \E e \in registry : e.key = TokenKey(token)
    THEN registry
    ELSE registry \cup { [key |-> TokenKey(token), client |-> Cardinality(registry) + 1] }

\* line 62, `return octokit`: the client a call with the token returns.
OctokitFor(registry, token) ==
    (CHOOSE e \in GetOctokit(registry, token) : e.key = TokenKey(token)).client

Request(a, endpoint) == [a |-> a, endpoint |-> endpoint]
Requests(a, endpoint) == { k \in 1..Len(api) : api[k] = Request(a, endpoint) }

\* An invocation of version, cacheId or copyTo on instance a: where it stands
\* (pc), its locals, its promise, and what it has done so far.
Frame(a, op, pc, dest, parent) ==
    [a |-> a, op |-> op, pc |-> pc, dest |-> dest, parent |-> parent, val |-> 0,
     listed |-> << >>, promise |-> PPending, observed |-> << >>, madeDest |-> FALSE,
     downloads |-> 0, via |-> 0]

Done(fr, promise) == [fr EXCEPT !.pc = "done", !.promise = promise]
Running(fr) == fr.pc # "done"
MemoSettled(m) == m.state \in {"resolved", "rejected"}

\* A getter that starts the promise chain anew when the last one failed.
ReadMemoRetry(m) ==
    IF m.state \in {"undefined", "rejected"}
    THEN [state |-> "getOctokit", value |-> 0, error |-> m.error]
    ELSE m

\* lines 124-129 and 265-278: reading the getter starts the promise chain
\* when the field is still undefined, and returns the field.
ReadMemo(m) == IF m.state = "undefined" THEN [m EXCEPT !.state = "getOctokit"] ELSE m

\* ----------------------------------------------------- GitHubReleaseAsset

\* What listReleaseAssets may answer for a release.
AssetListings == { {}, {"other.txt"}, {"tool.tgz", "other.txt"} }

TagName(idx) == IF idx = 0 THEN << "undefined" >> ELSE github.releases[idx]

\* lines 159-162: release?.tag_name?.match(this.tagRegex)?.[1].
ReleaseVersion(cfg, idx) ==
    IF idx = 0 THEN Undefined
    ELSE Group1(github.releases[idx], StringMatch(github.releases[idx], TagRegex(cfg.tag)))

\* lines 132-135: `${this.owner}/${this.repo}/${release?.tag_name}`.
ReleaseCacheId(cfg, idx) == cfg.owner \o Slash \o cfg.repo \o Slash \o TagName(idx)

\* line 146.
ReleaseNotFound(cfg) ==
    Error("Error", << "Could not find release for tag pattern " >>
                       \o RegexSource(TagRegex(cfg.tag)))

\* line 153.
ReleaseAssetNotFound(cfg, idx) ==
    Error("Error", << "Could not find release asset ", cfg.assetName, " for release '" >>
                       \o TagName(idx) \o << "'" >>)

RequestError(endpoint) == Error("RequestError", << endpoint >>)
IOError(what) == Error("IOError", << what >>)

\* lines 125-126: getOctokit() has resolved and listReleases goes out.
ReleaseListReleases(a) ==
    /\ a \in 1..Len(assets)
    /\ obj[a].releasePromise.state = "getOctokit"
    /\ OCTOKIT' = GetOctokit(OCTOKIT, assets[a].token)
    /\ api' = Append(api, Request(a, "listReleases"))
    /\ obj' = [obj EXCEPT ![a].releasePromise.state = "listReleases"]
    /\ UNCHANGED dlVars
    /\ UNCHANGED toolVars
    /\ UNCHANGED <<assets, frames, github, budget, overlapped, disposing, disposed>>

\* line 127: the listing arrives and the release is picked.
ReleaseListed(a) ==
    /\ a \in 1..Len(assets)
    /\ obj[a].releasePromise.state = "listReleases"
    /\ obj' = [obj EXCEPT ![a].releasePromise =
                  [state |-> "resolved", value |-> FindRelease(github.releases, assets[a].tag),
                   error |-> NoError]]
    /\ UNCHANGED dlVars
    /\ UNCHANGED toolVars
    /\ UNCHANGED <<assets, OCTOKIT, frames, api, github, budget, overlapped, disposing, disposed>>

\* line 126: listReleases fails, and so does the promise chain.
ReleaseListFailed(a) ==
    /\ a \in 1..Len(assets)
    /\ obj[a].releasePromise.state = "listReleases"
    /\ obj' = [obj EXCEPT ![a].releasePromise =
                  [state |-> "rejected", value |-> 0, error |-> RequestError("listReleases")]]
    /\ UNCHANGED dlVars
    /\ UNCHANGED toolVars
    /\ UNCHANGED <<assets, OCTOKIT, frames, api, github, budget, overlapped, disposing, disposed>>

\* lines 132-135 and 159-162: the .then of cacheId and version.
ReleaseGetterSettled(f) ==
    /\ f \in 1..Len(frames)
    /\ frames[f].pc = "release" /\ frames[f].op \in {"version", "cacheId"}
    /\ LET a == frames[f].a
           m == obj[a].releasePromise
       IN /\ MemoSettled(m)
          /\ frames' = [frames EXCEPT ![f] =
                IF m.state = "rejected" THEN Done(@, PRejected(m.error))
                ELSE [Done(@, PResolved(IF @.op = "version"
                                         THEN ReleaseVersion(assets[a], m.value)
                                         ELSE ReleaseCacheId(assets[a], m.value)))
                        EXCEPT !.observed = IF m.value = 0 THEN Undefined ELSE TagName(m.value)]]
    /\ UNCHANGED dlVars
    /\ UNCHANGED toolVars
    /\ UNCHANGED <<assets, obj, OCTOKIT, api, github, budget, overlapped, disposing, disposed>>

\* lines 142-143, findReleaseAsset: getOctokit() has resolved; this.release
\* is read and awaited.
FindReleaseAssetOctokit(f) ==
    /\ f \in 1..Len(frames)
    /\ frames[f].pc = "getOctokit" /\ assets[frames[f].a].kind = "release"
    /\ OCTOKIT' = GetOctokit(OCTOKIT, assets[frames[f].a].token)
    /\ obj' = [obj EXCEPT ![frames[f].a].releasePromise = ReadMemo(@)]
    /\ frames' = [frames EXCEPT ![f].pc = "release"]
    /\ UNCHANGED dlVars
    /\ UNCHANGED toolVars
    /\ UNCHANGED <<assets, api, github, budget, overlapped, disposing, disposed>>

\* lines 143-149, findReleaseAsset: the release is there, or the lookup has
\* failed, or no release matched.
FindReleaseAssetRelease(f) ==
    /\ f \in 1..Len(frames)
    /\ frames[f].pc = "release" /\ frames[f].op = "copyTo"
    /\ LET a == frames[f].a
           m == obj[a].releasePromise
       IN /\ MemoSettled(m)
          /\ IF m.state = "rejected"
             THEN /\ frames' = [frames EXCEPT ![f] = Done(@, PRejected(m.error))]
                  /\ api' = api
             ELSE IF m.value = 0
             THEN /\ frames' = [frames EXCEPT ![f] = Done(@, PRejected(ReleaseNotFound(assets[a])))]
                  /\ api' = api
             ELSE /\ frames' = [frames EXCEPT ![f] =
                         [@ EXCEPT !.pc = "listReleaseAssets", !.val = m.value,
                                   !.observed = TagName(m.value)]]
                  /\ api' = Append(api, Request(a, "listReleaseAssets"))
    /\ UNCHANGED dlVars
    /\ UNCHANGED toolVars
    /\ UNCHANGED <<assets, obj, OCTOKIT, github, budget, overlapped, disposing, disposed>>

\* findReleaseAsset without its check that the named asset is there.
FindReleaseAssetUnchecked(f, names) ==
    /\ f \in 1..Len(frames)
    /\ frames[f].pc = "listReleaseAssets"
    /\ frames' = [frames EXCEPT ![f] = [@ EXCEPT !.pc = "mkDest", !.listed = << names >>]]
    /\ UNCHANGED dlVars
    /\ UNCHANGED toolVars
    /\ UNCHANGED <<assets, obj, OCTOKIT, api, github, budget, overlapped, disposing, disposed>>

\* lines 149-166, findReleaseAsset and copyTo: the assets of the release
\* arrive; the named one is there and mkDest is called, or it is not.
FindReleaseAssetListed(f, names) ==
    /\ f \in 1..Len(frames)
    /\ frames[f].pc = "listReleaseAssets"
    /\ frames' = [frames EXCEPT ![f] =
          IF assets[@.a].assetName \in names
          THEN [@ EXCEPT !.pc = "mkDest", !.listed = << names >>]
          ELSE Done([@ EXCEPT !.listed = << names >>],
                    PRejected(ReleaseAssetNotFound(assets[@.a], @.val)))]
    /\ UNCHANGED dlVars
    /\ UNCHANGED toolVars
    /\ UNCHANGED <<assets, obj, OCTOKIT, api, github, budget, overlapped, disposing, disposed>>


\* ------------------------------------------------- AbstractAsset, as specified

\* addDisposable(d): the instance's list of disposables, d added last.
AddDisposable(o, d) == [o EXCEPT !.disposables = Append(@, d)]

\* The temp directory an instance takes when it has n disposables already.
TempOf(a, n) == TempDir \o << ToString(a), ToString(n) >>
NewTemp(o, a) == TempOf(a, Len(o.disposables))

\* mkTempDir(): a fresh directory under the system's temp root, its removal
\* registered as a disposable of the instance.
MkTempDir(o, a) == AddDisposable(o, [kind |-> "tempdir", path |-> NewTemp(o, a)])

\* lines 166, file-assets.ts 68 and 85, `dest = await this.mkDest(dest)`: the
\* destination directory is created; without a destination the instance
\* takes a temp directory of its own.
MkDest(f) ==
    /\ f \in 1..Len(frames)
    /\ frames[f].pc = "mkDest"
    /\ LET a == frames[f].a
           next == IF assets[a].kind = "local" THEN "copyFile" ELSE "downloadFile"
       IN IF frames[f].dest = Undefined
          THEN /\ obj' = [obj EXCEPT ![a] = MkTempDir(@, a)]
               /\ frames' = [frames EXCEPT ![f] =
                     [@ EXCEPT !.pc = next, !.dest = NewTemp(obj[a], a),
                               !.downloads = IF next = "downloadFile" THEN 1 ELSE 0]]
          ELSE /\ obj' = obj
               /\ frames' = [frames EXCEPT ![f] =
                     [@ EXCEPT !.pc = next, !.madeDest = TRUE,
                               !.downloads = IF next = "downloadFile" THEN 1 ELSE 0]]
    /\ UNCHANGED dlVars
    /\ UNCHANGED toolVars
    /\ UNCHANGED <<assets, OCTOKIT, api, github, budget, overlapped, disposing, disposed>>

\* line 167 and file-assets.ts 69-70: downloadFile has written
\* <dest>/<assetName or filename> and copyTo returns that path.
FileDownloaded(f) ==
    /\ f \in 1..Len(frames)
    /\ frames[f].pc = "downloadFile" /\ assets[frames[f].a].kind \in {"release", "web"}
    /\ frames' = [frames EXCEPT ![f] =
          Done(@, PResolved(@.dest \o << IF assets[@.a].kind = "release"
                                         THEN assets[@.a].assetName
                                         ELSE assets[@.a].filename >>))]
    /\ UNCHANGED dlVars
    /\ UNCHANGED toolVars
    /\ UNCHANGED <<assets, obj, OCTOKIT, api, github, budget, overlapped, disposing, disposed>>

\* The awaits of an invocation that end in a rejection when the request or
\* the file operation behind them fails.
FailablePcs ==
    { "listReleaseAssets", "mkDest", "downloadFile", "getRef", "mkTempDir",
      "downloadTarballArchive", "extractArchive", "mkdir", "copyRecursive",
      "listWorkflowRunArtifacts", "downloadArtifact", "mkdirp", "writeFile", "copyFile" }

FailureOf(pc) ==
    IF pc \in { "listReleaseAssets", "getRef", "downloadTarballArchive",
                "listWorkflowRunArtifacts", "downloadArtifact" }
    THEN RequestError(pc) ELSE IOError(pc)

\* An awaited request or file operation rejects: the async function throws.
FrameFails(f) ==
    /\ f \in 1..Len(frames)
    /\ frames[f].pc \in FailablePcs
    /\ frames' = [frames EXCEPT ![f] = Done(@, PRejected(FailureOf(@.pc)))]
    /\ UNCHANGED dlVars
    /\ UNCHANGED toolVars
    /\ UNCHANGED <<assets, obj, OCTOKIT, api, github, budget, overlapped, disposing, disposed>>

\* -------------------------------------------------------- GitHubRepoAsset

SHAs == { "sha1", "sha2" }

\* A resolver that never finds the ref resolved already.
HasRefNever(o, ref) == FALSE

\* lines 78-79: this.refs.has(ref), this.refs.get(ref).
HasRef(o, ref) == \E e \in o.refs : e.ref = ref
GetRef(o, ref) == (CHOOSE e \in o.refs : e.ref = ref).sha

\* lines 194-197: `${this.ref}@${sha}`.
RepoVersion(cfg, sha) == << cfg.ref >> \o At \o << sha >>
\* lines 199-202: `${this.owner}/${this.repo}/${sha}`.
RepoCacheId(cfg, sha) == cfg.owner \o Slash \o cfg.repo \o Slash \o << sha >>
RepoGetter(cfg, op, sha) ==
    IF op = "version" THEN RepoVersion(cfg, sha) ELSE RepoCacheId(cfg, sha)

\* lines 81-84, resolveRef: getOctokit() has resolved and getRef goes out.
ResolveRefOctokit(f) ==
    /\ f \in 1..Len(frames)
    /\ frames[f].pc = "getOctokit" /\ frames[f].op \in {"version", "cacheId"}
    /\ assets[frames[f].a].kind = "repo"
    /\ OCTOKIT' = GetOctokit(OCTOKIT, assets[frames[f].a].token)
    /\ api' = Append(api, Request(frames[f].a, "getRef"))
    /\ frames' = [frames EXCEPT ![f].pc = "getRef"]
    /\ UNCHANGED dlVars
    /\ UNCHANGED toolVars
    /\ UNCHANGED <<assets, obj, github, budget, overlapped, disposing, disposed>>

\* lines 82-86 with 194-202: getRef answers with the commit the ref points
\* to now; it is put into this.refs and the getter's .then makes its text.
ResolveRefDone(f, sha) ==
    /\ f \in 1..Len(frames)
    /\ frames[f].pc = "getRef"
    /\ LET a == frames[f].a IN
          /\ obj' = [obj EXCEPT ![a].refs =
                        { e \in @ : e.ref # assets[a].ref }
                            \cup { [ref |-> assets[a].ref, sha |-> sha] }]
          /\ frames' = [frames EXCEPT ![f] =
                [Done(@, PResolved(RepoGetter(assets[a], @.op, sha)))
                    EXCEPT !.observed = << sha >>]]
    /\ UNCHANGED dlVars
    /\ UNCHANGED toolVars
    /\ UNCHANGED <<assets, OCTOKIT, api, github, budget, overlapped, disposing, disposed>>

\* lines 215-216 with 90: the temp directory is there; downloadRepo awaits
\* getOctokit().
RepoMkTempDir(f) ==
    /\ f \in 1..Len(frames)
    /\ frames[f].pc = "mkTempDir" /\ assets[frames[f].a].kind = "repo"
    /\ obj' = [obj EXCEPT ![frames[f].a] = MkTempDir(@, frames[f].a)]
    /\ frames' = [frames EXCEPT ![f].pc = "getOctokit"]
    /\ UNCHANGED dlVars
    /\ UNCHANGED toolVars
    /\ UNCHANGED <<assets, OCTOKIT, api, github, budget, overlapped, disposing, disposed>>

\* lines 90-91, downloadRepo: downloadTarballArchive goes out.
DownloadRepoOctokit(f) ==
    /\ f \in 1..Len(frames)
    /\ frames[f].pc = "getOctokit" /\ frames[f].op = "copyTo"
    /\ assets[frames[f].a].kind = "repo"
    /\ OCTOKIT' = GetOctokit(OCTOKIT, assets[frames[f].a].token)
    /\ api' = Append(api, Request(frames[f].a, "downloadTarballArchive"))
    /\ frames' = [frames EXCEPT ![f].pc = "downloadTarballArchive"]
    /\ UNCHANGED dlVars
    /\ UNCHANGED toolVars
    /\ UNCHANGED <<assets, obj, github, budget, overlapped, disposing, disposed>>

\* lines 91-92, downloadRepo: the tarball's url is there and downloadFile is
\* called for <temp>/repo.tar.gz.
DownloadRepoTarball(f) ==
    /\ f \in 1..Len(frames)
    /\ frames[f].pc = "downloadTarballArchive"
    /\ frames' = [frames EXCEPT ![f] = [@ EXCEPT !.pc = "downloadFile", !.downloads = @ + 1]]
    /\ UNCHANGED dlVars
    /\ UNCHANGED toolVars
    /\ UNCHANGED <<assets, obj, OCTOKIT, api, github, budget, overlapped, disposing, disposed>>

\* lines 216-217: the tarball is on disk; extractArchive into <temp>/repo.
RepoDownloaded(f) ==
    /\ f \in 1..Len(frames)
    /\ frames[f].pc = "downloadFile" /\ assets[frames[f].a].kind = "repo"
    /\ frames' = [frames EXCEPT ![f].pc = "extractArchive"]
    /\ UNCHANGED dlVars
    /\ UNCHANGED toolVars
    /\ UNCHANGED <<assets, obj, OCTOKIT, api, github, budget, overlapped, disposing, disposed>>

\* lines 217-223: the tree is extracted; its removal is registered and
\* fs.mkdir(dest) is awaited.
RepoExtracted(f) ==
    /\ f \in 1..Len(frames)
    /\ frames[f].pc = "extractArchive" /\ assets[frames[f].a].kind = "repo"
    /\ obj' = [obj EXCEPT ![frames[f].a] =
                  AddDisposable(@, [kind |-> "extracted",
                                    path |-> @.disposables[Len(@.disposables)].path
                                                \o << "repo" >>])]
    /\ frames' = [frames EXCEPT ![f].pc = "mkdir"]
    /\ UNCHANGED dlVars
    /\ UNCHANGED toolVars
    /\ UNCHANGED <<assets, OCTOKIT, api, github, budget, overlapped, disposing, disposed>>

\* lines 223-231: dest is there; the first of the paths is copied, or, with
\* no path at all, copyTo returns.
RepoMkdir(f) ==
    /\ f \in 1..Len(frames)
    /\ frames[f].pc = "mkdir"
    /\ frames' = [frames EXCEPT ![f] =
          IF assets[@.a].paths = 0
          THEN Done([@ EXCEPT !.madeDest = TRUE], PResolved(@.dest))
          ELSE [@ EXCEPT !.pc = "copyRecursive", !.madeDest = TRUE,
                         !.val = assets[frames[f].a].paths]]
    /\ UNCHANGED dlVars
    /\ UNCHANGED toolVars
    /\ UNCHANGED <<assets, obj, OCTOKIT, api, github, budget, overlapped, disposing, disposed>>

\* lines 225-231: one path is copied; the next follows, or copyTo returns.
RepoCopied(f) ==
    /\ f \in 1..Len(frames)
    /\ frames[f].pc = "copyRecursive"
    /\ frames' = [frames EXCEPT ![f] =
          IF @.val = 1 THEN Done([@ EXCEPT !.val = 0], PResolved(@.dest))
          ELSE [@ EXCEPT !.val = @ - 1]]
    /\ UNCHANGED dlVars
    /\ UNCHANGED toolVars
    /\ UNCHANGED <<assets, obj, OCTOKIT, api, github, budget, overlapped, disposing, disposed>>


\* ----------------------------------------------------- GitHubWorkflowAsset

\* The listWorkflowRuns endpoint: the runs with the given status, most
\* recent first, at most perPage of them.
ListWorkflowRuns(runs, status, perPage) ==
    LET hasStatus(r) == r.status = status
        found == SelectSeq(runs, hasStatus)
    IN SubSeq(found, 1, IF Len(found) < perPage THEN Len(found) ELSE perPage)

\* The first run of the workflow whatever its status, as from a request
\* without `status: 'success'`.
LastRunAnyStatus(runs) == IF Len(runs) = 0 THEN 0 ELSE runs[1].id

\* lines 266-276: response.data.workflow_runs[0] of the request with
\* per_page: 1 and status: 'success'; its id, 0 when there is none.
LastWorkflowRun(runs) ==
    LET found == ListWorkflowRuns(runs, "success", 1)
    IN IF Len(found) = 0 THEN 0 ELSE found[1].id

\* Reading `run.id` of a run that is undefined.
RunUndefined == Error("TypeError", << "Cannot read properties of undefined (reading 'id')" >>)

\* lines 291-294: `${this.workflow}@${run.id}`.
WorkflowVersion(cfg, id) == << cfg.workflow >> \o At \o << ToString(id) >>
\* lines 296-299: `${this.owner}/${this.repo}/${this.workflow}/${run.id}`.
WorkflowCacheId(cfg, id) ==
    cfg.owner \o Slash \o cfg.repo \o Slash \o << cfg.workflow >> \o Slash \o << ToString(id) >>

ToolArtifact == << "t", "l", "-", "x" >>
DocsArtifact == << "d", "c" >>
\* What listWorkflowRunArtifacts may answer for a run.
ArtifactListings == { << >>, << DocsArtifact >>, << DocsArtifact, ToolArtifact >> }

\* line 308: artifact.name.match(this.artifactName), a string standing for
\* the RegExp made of it.
ArtifactMatches(name, artifactName) == StringMatch(name, ParsePattern(artifactName)).ok

\* line 310.
ArtifactNotFound(cfg, id) ==
    Error("Error", << "No artifact found matching " >> \o cfg.artifactName
                       \o << " in workflow run ", ToString(id) >>)

\* lines 274-275: getOctokit() has resolved and listWorkflowRuns goes out.
WorkflowListRuns(a) ==
    /\ a \in 1..Len(assets)
    /\ obj[a].lastWorkflowRunPromise.state = "getOctokit"
    /\ OCTOKIT' = GetOctokit(OCTOKIT, assets[a].token)
    /\ api' = Append(api, Request(a, "listWorkflowRuns"))
    /\ obj' = [obj EXCEPT ![a].lastWorkflowRunPromise.state = "listWorkflowRuns"]
    /\ UNCHANGED dlVars
    /\ UNCHANGED toolVars
    /\ UNCHANGED <<assets, frames, github, budget, overlapped, disposing, disposed>>

\* line 276: the runs arrive and the first is taken.
WorkflowListed(a) ==
    /\ a \in 1..Len(assets)
    /\ obj[a].lastWorkflowRunPromise.state = "listWorkflowRuns"
    /\ obj' = [obj EXCEPT ![a].lastWorkflowRunPromise =
                  [state |-> "resolved", value |-> LastWorkflowRun(github.runs),
                   error |-> NoError]]
    /\ UNCHANGED dlVars
    /\ UNCHANGED toolVars
    /\ UNCHANGED <<assets, OCTOKIT, frames, api, github, budget, overlapped, disposing, disposed>>

\* line 275: listWorkflowRuns fails, and so does the promise chain.
WorkflowListFailed(a) ==
    /\ a \in 1..Len(assets)
    /\ obj[a].lastWorkflowRunPromise.state = "listWorkflowRuns"
    /\ obj' = [obj EXCEPT ![a].lastWorkflowRunPromise =
                  [state |-> "rejected", value |-> 0, error |-> RequestError("listWorkflowRuns")]]
    /\ UNCHANGED dlVars
    /\ UNCHANGED toolVars
    /\ UNCHANGED <<assets, OCTOKIT, frames, api, github, budget, overlapped, disposing, disposed>>

\* lines 291-299: the .then of version and cacheId, which reads run.id.
WorkflowGetterSettled(f) ==
    /\ f \in 1..Len(frames)
    /\ frames[f].pc = "lastWorkflowRun" /\ frames[f].op \in {"version", "cacheId"}
    /\ LET a == frames[f].a
           m == obj[a].lastWorkflowRunPromise
       IN /\ MemoSettled(m)
          /\ frames' = [frames EXCEPT ![f] =
                IF m.state = "rejected" THEN Done(@, PRejected(m.error))
                ELSE IF m.value = 0 THEN Done(@, PRejected(RunUndefined))
                ELSE [Done(@, PResolved(IF @.op = "version"
                                         THEN WorkflowVersion(assets[a], m.value)
                                         ELSE WorkflowCacheId(assets[a], m.value)))
                        EXCEPT !.observed = << ToString(m.value) >>]]
    /\ UNCHANGED dlVars
    /\ UNCHANGED toolVars
    /\ UNCHANGED <<assets, obj, OCTOKIT, api, github, budget, overlapped, disposing, disposed>>

\* lines 302-304: getOctokit() has resolved; mkTempDir is awaited.
WorkflowCopyOctokit(f) ==
    /\ f \in 1..Len(frames)
    /\ frames[f].pc = "getOctokit" /\ assets[frames[f].a].kind = "workflow"
    /\ OCTOKIT' = GetOctokit(OCTOKIT, assets[frames[f].a].token)
    /\ frames' = [frames EXCEPT ![f].pc = "mkTempDir"]
    /\ UNCHANGED dlVars
    /\ UNCHANGED toolVars
    /\ UNCHANGED <<assets, obj, api, github, budget, overlapped, disposing, disposed>>

\* lines 304-306: the temp directory is there; this.lastWorkflowRun is read
\* and awaited.
WorkflowMkTempDir(f) ==
    /\ f \in 1..Len(frames)
    /\ frames[f].pc = "mkTempDir" /\ assets[frames[f].a].kind = "workflow"
    /\ obj' = [obj EXCEPT ![frames[f].a] =
                  [MkTempDir(@, frames[f].a) EXCEPT !.lastWorkflowRunPromise = ReadMemo(@)]]
    /\ frames' = [frames EXCEPT ![f].pc = "lastWorkflowRun"]
    /\ UNCHANGED dlVars
    /\ UNCHANGED toolVars
    /\ UNCHANGED <<assets, OCTOKIT, api, github, budget, overlapped, disposing, disposed>>

\* lines 306-307: the run is there and its artifacts are asked for, or the
\* lookup has failed, or there is no run and run.id throws.
WorkflowCopyRun(f) ==
    /\ f \in 1..Len(frames)
    /\ frames[f].pc = "lastWorkflowRun" /\ frames[f].op = "copyTo"
    /\ LET a == frames[f].a
           m == obj[a].lastWorkflowRunPromise
       IN /\ MemoSettled(m)
          /\ IF m.state = "rejected"
             THEN /\ frames' = [frames EXCEPT ![f] = Done(@, PRejected(m.error))]
                  /\ api' = api
             ELSE IF m.value = 0
             THEN /\ frames' = [frames EXCEPT ![f] = Done(@, PRejected(RunUndefined))]
                  /\ api' = api
             ELSE /\ frames' = [frames EXCEPT ![f] =
                         [@ EXCEPT !.pc = "listWorkflowRunArtifacts", !.val = m.value,
                                   !.observed = << ToString(m.value) >>]]
                  /\ api' = Append(api, Request(a, "listWorkflowRunArtifacts"))
    /\ UNCHANGED dlVars
    /\ UNCHANGED toolVars
    /\ UNCHANGED <<assets, obj, OCTOKIT, github, budget, overlapped, disposing, disposed>>

\* lines 307-316 with 282: the artifacts arrive; the first whose name matches
\* is taken and downloadArtifact looks for its file, or there is none.
WorkflowArtifactsListed(f, names) ==
    /\ f \in 1..Len(frames)
    /\ frames[f].pc = "listWorkflowRunArtifacts"
    /\ frames' = [frames EXCEPT ![f] =
          IF \E k \in 1..Len(names) : ArtifactMatches(names[k], assets[@.a].artifactName)
          THEN [@ EXCEPT !.pc = "assureFile", !.listed = << names >>]
          ELSE Done([@ EXCEPT !.listed = << names >>],
                    PRejected(ArtifactNotFound(assets[@.a], @.val)))]
    /\ UNCHANGED dlVars
    /\ UNCHANGED toolVars
    /\ UNCHANGED <<assets, obj, OCTOKIT, api, github, budget, overlapped, disposing, disposed>>

\* lines 282-283 and 318: the file is there already and is extracted, or it
\* is not and getOctokit() is awaited.
WorkflowAssureFile(f, exists) ==
    /\ f \in 1..Len(frames)
    /\ frames[f].pc = "assureFile"
    /\ frames' = [frames EXCEPT ![f].pc = IF exists THEN "extractArchive" ELSE "getOctokit2"]
    /\ UNCHANGED dlVars
    /\ UNCHANGED toolVars
    /\ UNCHANGED <<assets, obj, OCTOKIT, api, github, budget, overlapped, disposing, disposed>>

\* lines 283-284, downloadArtifact: the request for the zip goes out.
WorkflowDownloadOctokit(f) ==
    /\ f \in 1..Len(frames)
    /\ frames[f].pc = "getOctokit2"
    /\ OCTOKIT' = GetOctokit(OCTOKIT, assets[frames[f].a].token)
    /\ api' = Append(api, Request(frames[f].a, "downloadArtifact"))
    /\ frames' = [frames EXCEPT ![f] = [@ EXCEPT !.pc = "downloadArtifact", !.downloads = @ + 1]]
    /\ UNCHANGED dlVars
    /\ UNCHANGED toolVars
    /\ UNCHANGED <<assets, obj, github, budget, overlapped, disposing, disposed>>

\* lines 284-286: the zip has arrived; its directory is made, then the file
\* written.
WorkflowArtifactStored(f) ==
    /\ f \in 1..Len(frames)
    /\ frames[f].pc \in {"downloadArtifact", "mkdirp", "writeFile"}
    /\ frames' = [frames EXCEPT ![f].pc =
          CASE @ = "downloadArtifact" -> "mkdirp"
            [] @ = "mkdirp" -> "writeFile"
            [] OTHER -> "extractArchive"]
    /\ UNCHANGED dlVars
    /\ UNCHANGED toolVars
    /\ UNCHANGED <<assets, obj, OCTOKIT, api, github, budget, overlapped, disposing, disposed>>


\* extractArchive(archive, dest, { strip }) has extracted into dest, which it
\* creates if absent (a temp directory of the instance without a dest), and
\* copyTo returns it: line 318 and file-assets.ts line 43.
Extracted(f) ==
    /\ f \in 1..Len(frames)
    /\ frames[f].pc = "extractArchive" /\ assets[frames[f].a].kind \in {"workflow", "archive"}
    /\ LET a == frames[f].a IN
       IF frames[f].dest = Undefined
       THEN /\ obj' = [obj EXCEPT ![a] = MkTempDir(@, a)]
            /\ frames' = [frames EXCEPT ![f] =
                  Done([@ EXCEPT !.dest = NewTemp(obj[a], a)], PResolved(NewTemp(obj[a], a)))]
       ELSE /\ obj' = obj
            /\ frames' = [frames EXCEPT ![f] =
                  Done([@ EXCEPT !.madeDest = TRUE], PResolved(@.dest))]
    /\ UNCHANGED dlVars
    /\ UNCHANGED toolVars
    /\ UNCHANGED <<assets, OCTOKIT, api, github, budget, overlapped, disposing, disposed>>


\* ------------------------------------------------------ starting an invocation

\* file-assets.ts lines 63-65: path.join(this.url.host,
\* path.normalize(this.url.pathname)).
WebCacheId(cfg) == << "h", "/", "f" >>

\* version and cacheId of an asset class that defines none of its own: what
\* AbstractAsset gives, undefined.
AbstractGetter(op) == Undefined

\* The synchronous start of version, cacheId or copyTo on instance a, up to
\* its first await: the new invocation and the instance's fields after it.
Begin(a, op, dest, parent) ==
    LET cfg == assets[a]
        o == obj[a]
        fr(pc) == Frame(a, op, pc, dest, parent)
        same(pc) == [frame |-> fr(pc), obj |-> o]
    IN CASE cfg.kind = "release" /\ op = "copyTo" -> same("getOctokit")
         [] cfg.kind = "release" /\ op # "copyTo" ->
                [frame |-> fr("release"),
                 obj |-> [o EXCEPT !.releasePromise = ReadMemo(@)]]
         [] cfg.kind = "repo" /\ op = "copyTo" -> same("mkTempDir")
         [] cfg.kind = "repo" /\ op # "copyTo" ->
                \* lines 78-80, resolveRef: the ref is in this.refs already
                IF HasRef(o, cfg.ref)
                THEN [frame |-> [Done(fr("resolveRef"),
                                      PResolved(RepoGetter(cfg, op, GetRef(o, cfg.ref))))
                                   EXCEPT !.observed = << GetRef(o, cfg.ref) >>],
                      obj |-> o]
                ELSE same("getOctokit")
         [] cfg.kind = "workflow" /\ op = "copyTo" -> same("getOctokit")
         [] cfg.kind = "workflow" /\ op # "copyTo" ->
                [frame |-> fr("lastWorkflowRun"),
                 obj |-> [o EXCEPT !.lastWorkflowRunPromise = ReadMemo(@)]]
         [] cfg.kind = "archive" /\ op = "copyTo" -> same("subject")
         [] cfg.kind = "web" /\ op = "version" ->
                [frame |-> Done(fr("version"), PResolved(cfg.version)), obj |-> o]
         [] cfg.kind = "web" /\ op = "cacheId" ->
                [frame |-> Done(fr("cacheId"), PResolved(WebCacheId(cfg))), obj |-> o]
         [] cfg.kind \in {"archive", "local"} /\ op # "copyTo" ->
                [frame |-> Done(fr(op), PResolved(AbstractGetter(op))), obj |-> o]
         [] OTHER -> same("mkDest")

\* The instance whose getter answers when op is read on instance a:
\* file-assets.ts lines 37-39, ArchiveFileAsset.version returns
\* this.subject.version; ArchiveFileAsset defines no cacheId.
RECURSIVE Delegate(_, _)
Delegate(a, op) ==
    IF assets[a].kind = "archive" /\ op = "version"
    THEN Delegate(assets[a].subject, op)
    ELSE a

IsTop(a) == a \in 1..Len(assets) /\ \A b \in 1..Len(assets) : assets[b].subject # a

Ops == { "version", "cacheId", "copyTo" }

\* A caller reads version or cacheId of an asset, or calls copyTo of one that
\* is no other's subject (with a destination, or, where the parameter is
\* optional, without).
CallStart(a, op, dest) ==
    /\ budget > 0
    /\ a \in 1..Len(assets)
    /\ IsTop(a) \/ op # "copyTo"
    /\ op \in Ops
    /\ dest = Undefined \/ op = "copyTo"
    /\ dest # Undefined \/ ~(assets[a].kind = "repo" /\ op = "copyTo")
    /\ disposing = << >> /\ disposed = << >>
    /\ LET target == Delegate(a, op)
           b == Begin(target, op, dest, 0)
       IN /\ frames' = Append(frames, [b.frame EXCEPT !.via = IF target = a THEN 0 ELSE a])
          /\ obj' = [obj EXCEPT ![target] = b.obj]
    /\ budget' = budget - 1
    /\ overlapped' = (overlapped \/ \E g \in 1..Len(frames) : Running(frames[g]))
    /\ UNCHANGED dlVars
    /\ UNCHANGED toolVars
    /\ UNCHANGED <<assets, OCTOKIT, api, github, disposing, disposed>>

\* ------------------------------------------- specification: a release asset

\* Invocations on the release asset whose resolution is looked at.
ReleaseCalls == 1

\* What listReleases may answer: up to MaxReleases releases, no two of them
\* on one tag.
ReleaseListings ==
    { l \in SeqsUpTo(Tags, MaxReleases) :
        \A i, j \in 1..Len(l) : l[i] = l[j] => i = j }

InitRelease ==
    /\ DLIdle
    /\ ToolIdle
    /\ \E tag \in TagPatterns :
          /\ assets = << GitHubReleaseAsset(tag, "tool.tgz", "tok") >>
          /\ obj = << NewObject(GitHubReleaseAsset(tag, "tool.tgz", "tok")) >>
    /\ \E listing \in ReleaseListings :
          github = [releases |-> listing, runs |-> << >>]
    /\ OCTOKIT = {}
    /\ frames = NoFrames
    /\ api = << >>
    /\ budget = ReleaseCalls
    /\ overlapped = FALSE
    /\ disposing = << >>
    /\ disposed = << >>

NextRelease ==
    \/ \E op \in Ops, dest \in {Dest, Undefined} : CallStart(1, op, dest)
    \/ ReleaseListReleases(1)
    \/ ReleaseListed(1)
    \/ ReleaseListFailed(1)
    \/ \E f \in 1..Len(frames) : ReleaseGetterSettled(f)
    \/ \E f \in 1..Len(frames) : FindReleaseAssetOctokit(f)
    \/ \E f \in 1..Len(frames) : FindReleaseAssetRelease(f)
    \/ \E f \in 1..Len(frames), names \in AssetListings : FindReleaseAssetListed(f, names)
    \/ \E f \in 1..Len(frames) : MkDest(f)
    \/ \E f \in 1..Len(frames) : FileDownloaded(f)
    \/ \E f \in 1..Len(frames) : FrameFails(f)

SpecRelease == InitRelease /\ [][NextRelease]_vars


\* ---------------------------------------------------- release asset: claims

\* Whether text sub occurs in text s.
Occurs(sub, s) ==
    \E k \in 0..(Len(s) - Len(sub)) : SubSeq(s, k + 1, k + Len(sub)) = sub

TagMatches(a, tagName) == StringMatch(tagName, TagRegex(assets[a].tag)).ok
ReleaseAssets == { a \in 1..Len(assets) : assets[a].kind = "release" }
Text150 == << "1", ".", "5", ".", "0" >>

\* C5: the release a GitHubReleaseAsset resolves to is the first of the
\* listing whose tag matches the pattern (none when no tag matches); version
\* is the text the pattern's group matched in that tag (for a string T the
\* part of the tag that T matched, a `.` of T standing for any character;
\* undefined for a RegExp without a group) and cacheId is
\* owner/repo/<matched tag>.  For [v2.0.0, v1.5.0, v1.0.0] and '1.5.0',
\* version is '1.5.0' and cacheId is o/r/v1.5.0.
C5_FirstMatchingRelease ==
    /\ \A a \in ReleaseAssets :
          obj[a].releasePromise.state = "resolved" =>
              LET k == obj[a].releasePromise.value IN
                  /\ k \in 0..Len(github.releases)
                  /\ k > 0 => TagMatches(a, github.releases[k])
                  /\ \A j \in 1..Len(github.releases) :
                         (k = 0 \/ j < k) => ~TagMatches(a, github.releases[j])
    /\ \A f \in 1..Len(frames) :
          LET fr == frames[f]
              a == fr.a
              tag == assets[a].tag
              k == obj[a].releasePromise.value
          IN ( a \in ReleaseAssets /\ fr.promise.kind = "resolved" /\ k > 0 ) =>
                /\ fr.op = "cacheId" =>
                      fr.promise.value = Owner \o << "/" >> \o Repo \o << "/" >> \o github.releases[k]
                /\ (fr.op = "version" /\ tag.isString) =>
                      /\ Len(fr.promise.value) = Len(tag.text)
                      /\ Occurs(fr.promise.value, github.releases[k])
                      /\ \A c \in 1..Len(tag.text) :
                             tag.text[c] # "." => fr.promise.value[c] = tag.text[c]
                /\ (fr.op = "version" /\ ~tag.isString) =>
                      IF \E c \in 1..Len(tag.re) : tag.re[c].t = "open"
                      THEN fr.promise.value = Tail(github.releases[k])
                      ELSE fr.promise.value = Undefined
                /\ ( github.releases = << V200, V150, V100 >> /\ tag = StringTag(Text150) ) =>
                      /\ k = 2
                      /\ fr.op = "version" => fr.promise.value = Text150
                      /\ fr.op = "cacheId" =>
                            fr.promise.value = << "o", "/", "r", "/", "v", "1", ".", "5", ".", "0" >>

C5_Witness ==
    /\ github.releases = << V200, V150, V100 >>
    /\ assets[1].tag = StringTag(Text150)
    /\ \E f \in 1..Len(frames) :
          /\ frames[f].op = "version"
          /\ frames[f].promise = PResolved(Text150)

\* C6: copyTo of a GitHubReleaseAsset rejects when no release tag matches
\* the pattern, with an error that names the pattern, and when the matched
\* release has no asset of the given name, with an error that names the
\* asset and the matched tag; in both cases no destination was created, no
\* temp directory taken and no download started.
C6_CopyToFailsBeforeDest ==
    \A f \in 1..Len(frames) :
        LET fr == frames[f]
            a == fr.a
            m == obj[a].releasePromise
            noMatch == \A j \in 1..Len(github.releases) : ~TagMatches(a, github.releases[j])
            tookTemp == \E k \in 1..Len(obj[a].disposables) :
                            obj[a].disposables[k].path = fr.dest
            unmade == ~fr.madeDest /\ fr.downloads = 0 /\ ~tookTemp
        IN ( a \in ReleaseAssets /\ fr.op = "copyTo" ) =>
              /\ ( m.state = "resolved" /\ noMatch /\ fr.pc \notin {"getOctokit", "release"} ) =>
                    /\ fr.promise.kind = "rejected"
                    /\ fr.promise.error.text[1] = "Could not find release for tag pattern "
                    /\ Occurs(RegexSource(TagRegex(assets[a].tag)), fr.promise.error.text)
                    /\ assets[a].tag.isString =>
                          Occurs(<< "v", "?", "(" >> \o assets[a].tag.text \o << ")" >>,
                                 fr.promise.error.text)
                    /\ unmade
              /\ ( fr.listed # << >> /\ assets[a].assetName \notin fr.listed[1] ) =>
                    /\ fr.promise.kind = "rejected"
                    /\ fr.promise.error.text[1] = "Could not find release asset "
                    /\ Occurs(<< assets[a].assetName >>, fr.promise.error.text)
                    /\ Occurs(github.releases[m.value], fr.promise.error.text)
                    /\ TagMatches(a, github.releases[m.value])
                    /\ unmade
              /\ ( fr.madeDest \/ fr.downloads > 0 \/ tookTemp ) =>
                    /\ ~noMatch
                    /\ fr.listed # << >> /\ assets[a].assetName \in fr.listed[1]

C6_Witness ==
    \E f \in 1..Len(frames) :
        /\ frames[f].op = "copyTo"
        /\ frames[f].promise.kind = "rejected"
        /\ frames[f].promise.error.text =
              << "Could not find release asset ", "tool.tgz", " for release '",
                 "v", "1", ".", "5", ".", "0", "'" >>
        /\ ~frames[f].madeDest

C6_WitnessNoRelease ==
    \E f \in 1..Len(frames) :
        /\ frames[f].op = "copyTo"
        /\ frames[f].promise.kind = "rejected"
        /\ frames[f].promise.error.text =
              << "Could not find release for tag pattern ", "v", "?", "(", "3", ".", "0",
                 ".", "0", ")" >>


\* --------------------------- specification: the lookups of the GitHub assets

BuildRuns == << Run(3, "failure"), Run(2, "success"), Run(1, "success") >>
ArtifactPattern == << "t", "l" >>

\* One instance of a release, repository or workflow asset.
GitHubAssets ==
       { GitHubReleaseAsset(StringTag(Text150), "tool.tgz", "tok") }
  \cup { GitHubRepoAsset(Absent, n, "tok") : n \in {1, 2} }
  \cup { GitHubWorkflowAsset("build.yml", ArtifactPattern, "tok") }

\* A repository with a matching release and a successful run, and one with
\* neither.
GitHubRepos ==
    { [releases |-> << V200, V150, V100 >>, runs |-> BuildRuns],
      [releases |-> << V200 >>, runs |-> << Run(3, "failure") >>] }

InitLookup ==
    /\ DLIdle
    /\ ToolIdle
    /\ \E cfg \in GitHubAssets :
          /\ assets = << cfg >>
          /\ obj = << NewObject(cfg) >>
    /\ github \in GitHubRepos
    /\ OCTOKIT = {}
    /\ frames = NoFrames
    /\ api = << >>
    /\ budget = MaxCalls
    /\ overlapped = FALSE
    /\ disposing = << >>
    /\ disposed = << >>

NextLookup ==
    \/ \E op \in Ops, dest \in {Dest, Undefined} : CallStart(1, op, dest)
    \/ ReleaseListReleases(1)
    \/ ReleaseListed(1)
    \/ ReleaseListFailed(1)
    \/ \E f \in 1..Len(frames) : ReleaseGetterSettled(f)
    \/ \E f \in 1..Len(frames) : FindReleaseAssetOctokit(f)
    \/ \E f \in 1..Len(frames) : FindReleaseAssetRelease(f)
    \/ \E f \in 1..Len(frames), names \in AssetListings : FindReleaseAssetListed(f, names)
    \/ \E f \in 1..Len(frames) : MkDest(f)
    \/ \E f \in 1..Len(frames) : FileDownloaded(f)
    \/ \E f \in 1..Len(frames) : FrameFails(f)
    \/ \E f \in 1..Len(frames) : ResolveRefOctokit(f)
    \/ \E f \in 1..Len(frames), sha \in SHAs : ResolveRefDone(f, sha)
    \/ \E f \in 1..Len(frames) : RepoMkTempDir(f)
    \/ \E f \in 1..Len(frames) : DownloadRepoOctokit(f)
    \/ \E f \in 1..Len(frames) : DownloadRepoTarball(f)
    \/ \E f \in 1..Len(frames) : RepoDownloaded(f)
    \/ \E f \in 1..Len(frames) : RepoExtracted(f)
    \/ \E f \in 1..Len(frames) : RepoMkdir(f)
    \/ \E f \in 1..Len(frames) : RepoCopied(f)
    \/ WorkflowListRuns(1)
    \/ WorkflowListed(1)
    \/ WorkflowListFailed(1)
    \/ \E f \in 1..Len(frames) : WorkflowGetterSettled(f)
    \/ \E f \in 1..Len(frames) : WorkflowCopyOctokit(f)
    \/ \E f \in 1..Len(frames) : WorkflowMkTempDir(f)
    \/ \E f \in 1..Len(frames) : WorkflowCopyRun(f)
    \/ \E f \in 1..Len(frames), names \in ArtifactListings : WorkflowArtifactsListed(f, names)
    \/ \E f \in 1..Len(frames), exists \in BOOLEAN : WorkflowAssureFile(f, exists)
    \/ \E f \in 1..Len(frames) : WorkflowDownloadOctokit(f)
    \/ \E f \in 1..Len(frames) : WorkflowArtifactStored(f)
    \/ \E f \in 1..Len(frames) : Extracted(f)

SpecLookup == InitLookup /\ [][NextLookup]_vars


\* ---------------------------------------------------- claims on the lookups

\* The request that resolves an instance: lines 126, 82 and 275.
LookupEndpoint(kind) ==
    CASE kind = "release" -> "listReleases"
      [] kind = "repo" -> "getRef"
      [] kind = "workflow" -> "listWorkflowRuns"
      [] OTHER -> "none"

Lookups(a) == Requests(a, LookupEndpoint(assets[a].kind))

NoneRejected == \A g \in 1..Len(frames) : frames[g].promise.kind # "rejected"

AtMostOneLookup == \A a \in 1..Len(assets) : Cardinality(Lookups(a)) <= 1

\* Every invocation that has seen the resolved value has seen the same one.
ObservedAgree ==
    \A g, h \in 1..Len(frames) :
        (frames[g].a = frames[h].a /\ frames[g].observed # << >> /\ frames[h].observed # << >>)
            => frames[g].observed = frames[h].observed

\* C7: on one instance of a release, repository or workflow asset, successful
\* version, cacheId and copyTo requests that are each awaited before the next
\* starts send at most one resolution request (listReleases, getRef,
\* listWorkflowRuns), and all of them see the same resolved value.
C7_SequentialMemoized ==
    (~overlapped /\ NoneRejected) => (AtMostOneLookup /\ ObservedAgree)

\* Two requests, one after the other, have both resolved from one getRef.
C7_Witness ==
    /\ ~overlapped
    /\ Len(frames) = 2
    /\ assets[1].kind = "repo"
    /\ \A g \in 1..2 : frames[g].promise.kind = "resolved" /\ frames[g].op # "copyTo"
    /\ frames[1].op # frames[2].op
    /\ frames[1].observed = frames[2].observed
    /\ Cardinality(Lookups(1)) = 1

\* C8: when version and cacheId (or two reads of either) are requested on one
\* instance and the second starts before the first resolution has completed,
\* at most one resolution request is sent and the second caller sees the
\* same result; for the release lookup, the workflow-run lookup and
\* resolveRef alike.
C8_ConcurrentMemoized ==
    NoneRejected => (AtMostOneLookup /\ ObservedAgree)

\* C8 for the lookups kept as a promise (releasePromise,
\* lastWorkflowRunPromise) only: one request and one value however the reads
\* interleave.
C8_PromiseMemoized ==
    \A a \in 1..Len(assets) :
        assets[a].kind \in {"release", "workflow"} =>
            /\ Cardinality(Lookups(a)) <= 1
            /\ \A g, h \in 1..Len(frames) :
                  (frames[g].observed # << >> /\ frames[h].observed # << >>)
                      => frames[g].observed = frames[h].observed

\* Two overlapping reads on a repository asset have each sent getRef and
\* have seen different commits.
C8_Witness ==
    /\ overlapped
    /\ Len(frames) = 2
    /\ assets[1].kind = "repo"
    /\ \A g \in 1..2 : frames[g].promise.kind = "resolved" /\ frames[g].op # "copyTo"
    /\ frames[1].observed # frames[2].observed
    /\ Cardinality(Lookups(1)) = 2


\* ------------------------------------- ArchiveFileAsset and LocalFileAsset

\* file-assets.ts line 42: copyTo calls this.subject.copyTo(), without a
\* destination, and awaits it.
ArchiveCopySubject(f) ==
    /\ f \in 1..Len(frames)
    /\ frames[f].pc = "subject" /\ assets[frames[f].a].kind = "archive"
    /\ LET sub == assets[frames[f].a].subject
           b == Begin(sub, "copyTo", Undefined, f)
       IN /\ frames' = Append([frames EXCEPT ![f].pc = "awaitSubject"], b.frame)
          /\ obj' = [obj EXCEPT ![sub] = b.obj]
    /\ UNCHANGED dlVars
    /\ UNCHANGED toolVars
    /\ UNCHANGED <<assets, OCTOKIT, api, github, budget, overlapped, disposing, disposed>>

\* file-assets.ts lines 42-43: the subject's copyTo has settled; its
\* rejection is copyTo's own, its file goes to extractArchive.
ArchiveSubjectSettled(f) ==
    /\ f \in 1..Len(frames)
    /\ frames[f].pc = "awaitSubject"
    /\ \E g \in 1..Len(frames) :
          /\ frames[g].parent = f /\ ~Running(frames[g])
          /\ frames' = [frames EXCEPT ![f] =
                IF frames[g].promise.kind = "rejected"
                THEN Done(@, frames[g].promise)
                ELSE [@ EXCEPT !.pc = "extractArchive"]]
    /\ UNCHANGED dlVars
    /\ UNCHANGED toolVars
    /\ UNCHANGED <<assets, obj, OCTOKIT, api, github, budget, overlapped, disposing, disposed>>

\* file-assets.ts lines 86-87: fs.copyFile has copied the file to
\* <dest>/<targetName> and copyTo returns dest.
LocalCopied(f) ==
    /\ f \in 1..Len(frames)
    /\ frames[f].pc = "copyFile" /\ assets[frames[f].a].kind = "local"
    /\ frames' = [frames EXCEPT ![f] = Done(@, PResolved(@.dest))]
    /\ UNCHANGED dlVars
    /\ UNCHANGED toolVars
    /\ UNCHANGED <<assets, obj, OCTOKIT, api, github, budget, overlapped, disposing, disposed>>

\* --------------------------------------------------- dispose, as specified

\* A step of dispose() on instance a: its disposables from the k-th down are
\* still to run.
Disposing(a, k) == [a |-> a, k |-> k]
\* The i-th disposable of instance a has been run, and whether it succeeded.
Disposal(a, i, d, ok) == [a |-> a, i |-> i, d |-> d, ok |-> ok]

DisposeFinished == Len(disposing) = 1 /\ disposing[1].k = 0

\* The top-level copyTo has settled, either way, and its caller disposes of
\* the asset.
DisposeStart(a) ==
    /\ IsTop(a)
    /\ disposing = << >> /\ disposed = << >>
    /\ Len(frames) > 0
    /\ \A g \in 1..Len(frames) : ~Running(frames[g])
    /\ disposing' = << Disposing(a, Len(obj[a].disposables)) >>
    /\ UNCHANGED dlVars
    /\ UNCHANGED toolVars
    /\ UNCHANGED <<assets, obj, OCTOKIT, frames, api, github, budget, overlapped, disposed>>

\* dispose() runs the last disposable not yet run; a subject is disposed of
\* in its turn; a disposable that fails is passed over.
DisposeStep(ok) ==
    /\ disposing # << >>
    /\ LET n == Len(disposing)
           a == disposing[n].a
           k == disposing[n].k
       IN /\ k > 0
          /\ LET d == obj[a].disposables[k]
                 rest == [disposing EXCEPT ![n].k = k - 1]
             IN /\ disposed' = Append(disposed, Disposal(a, k, d, ok))
                /\ disposing' =
                      IF d.kind = "subject"
                      THEN Append(rest, Disposing(assets[a].subject,
                                                  Len(obj[assets[a].subject].disposables)))
                      ELSE rest
    /\ UNCHANGED dlVars
    /\ UNCHANGED toolVars
    /\ UNCHANGED <<assets, obj, OCTOKIT, frames, api, github, budget, overlapped>>

\* dispose() of a subject has run all its disposables and returns.
DisposeReturn ==
    /\ Len(disposing) > 1
    /\ disposing[Len(disposing)].k = 0
    /\ disposing' = SubSeq(disposing, 1, Len(disposing) - 1)
    /\ UNCHANGED dlVars
    /\ UNCHANGED toolVars
    /\ UNCHANGED <<assets, obj, OCTOKIT, frames, api, github, budget, overlapped, disposed>>

\* --------------------------------------- specification: copyTo and dispose

\* The assets a caller sets up: the first is the one it uses, an
\* ArchiveFileAsset wraps the next.
Chains ==
    LET release == GitHubReleaseAsset(StringTag(Text150), "tool.tgz", "tok")
        repo == GitHubRepoAsset(Absent, 2, "tok")
        workflow == GitHubWorkflowAsset("build.yml", ArtifactPattern, "tok")
        web == WebFileAsset("tool.tgz", << "1" >>)
        local == LocalFileAsset("tool.tgz")
    IN { << release >>, << repo >>, << workflow >>, << web >>, << local >>,
         << ArchiveFileAsset(2, 1), release >>,
         << ArchiveFileAsset(2, 1), workflow >>,
         << ArchiveFileAsset(2, 1), web >>,
         << ArchiveFileAsset(2, 1), local >>,
         << ArchiveFileAsset(2, 0), ArchiveFileAsset(3, 1), web >> }

InitDispose ==
    /\ DLIdle
    /\ ToolIdle
    /\ assets \in Chains
    /\ obj = [a \in 1..Len(assets) |-> NewObject(assets[a])]
    /\ github \in GitHubRepos
    /\ OCTOKIT = {}
    /\ frames = NoFrames
    /\ api = << >>
    /\ budget = 1
    /\ overlapped = FALSE
    /\ disposing = << >>
    /\ disposed = << >>

NextDispose ==
    \/ \E dest \in {Dest, Undefined} : CallStart(1, "copyTo", dest)
    \/ \E a \in 1..Len(assets) : ReleaseListReleases(a)
    \/ \E a \in 1..Len(assets) : ReleaseListed(a)
    \/ \E a \in 1..Len(assets) : ReleaseListFailed(a)
    \/ \E f \in 1..Len(frames) : FindReleaseAssetOctokit(f)
    \/ \E f \in 1..Len(frames) : FindReleaseAssetRelease(f)
    \/ \E f \in 1..Len(frames), names \in AssetListings : FindReleaseAssetListed(f, names)
    \/ \E f \in 1..Len(frames) : MkDest(f)
    \/ \E f \in 1..Len(frames) : FileDownloaded(f)
    \/ \E f \in 1..Len(frames) : FrameFails(f)
    \/ \E f \in 1..Len(frames) : RepoMkTempDir(f)
    \/ \E f \in 1..Len(frames) : DownloadRepoOctokit(f)
    \/ \E f \in 1..Len(frames) : DownloadRepoTarball(f)
    \/ \E f \in 1..Len(frames) : RepoDownloaded(f)
    \/ \E f \in 1..Len(frames) : RepoExtracted(f)
    \/ \E f \in 1..Len(frames) : RepoMkdir(f)
    \/ \E f \in 1..Len(frames) : RepoCopied(f)
    \/ \E a \in 1..Len(assets) : WorkflowListRuns(a)
    \/ \E a \in 1..Len(assets) : WorkflowListed(a)
    \/ \E a \in 1..Len(assets) : WorkflowListFailed(a)
    \/ \E f \in 1..Len(frames) : WorkflowCopyOctokit(f)
    \/ \E f \in 1..Len(frames) : WorkflowMkTempDir(f)
    \/ \E f \in 1..Len(frames) : WorkflowCopyRun(f)
    \/ \E f \in 1..Len(frames), names \in ArtifactListings : WorkflowArtifactsListed(f, names)
    \/ \E f \in 1..Len(frames), exists \in BOOLEAN : WorkflowAssureFile(f, exists)
    \/ \E f \in 1..Len(frames) : WorkflowDownloadOctokit(f)
    \/ \E f \in 1..Len(frames) : WorkflowArtifactStored(f)
    \/ \E f \in 1..Len(frames) : Extracted(f)
    \/ \E f \in 1..Len(frames) : ArchiveCopySubject(f)
    \/ \E f \in 1..Len(frames) : ArchiveSubjectSettled(f)
    \/ \E f \in 1..Len(frames) : LocalCopied(f)
    \/ DisposeStart(1)
    \/ \E ok \in BOOLEAN : DisposeStep(ok)
    \/ DisposeReturn

SpecDispose == InitDispose /\ [][NextDispose]_vars


\* ------------------------------------------------- claims on the disposables

\* The positions in disposed at which the i-th disposable of a was run.
RunsOf(a, i) == { n \in 1..Len(disposed) : disposed[n].a = a /\ disposed[n].i = i }

\* C10: every disposable registered on an asset of a copyTo chain (the temp
\* directories of mkTempDir, the extracted tree of GitHubRepoAsset.copyTo,
\* the subject of an ArchiveFileAsset) has been run exactly once when the
\* top-level operation has finished and the asset is disposed of, each
\* asset's in the reverse of the order they were registered in, whether
\* copyTo succeeded or failed partway through.
C10_DisposedOnceInReverse ==
    DisposeFinished =>
        /\ \A a \in 1..Len(assets) : \A i \in 1..Len(obj[a].disposables) :
              /\ Cardinality(RunsOf(a, i)) = 1
              /\ \A n \in RunsOf(a, i) : disposed[n].d = obj[a].disposables[i]
        /\ \A m, n \in 1..Len(disposed) :
              (m < n /\ disposed[m].a = disposed[n].a) => disposed[m].i > disposed[n].i

\* copyTo of an archive failed after its subject had taken a temp directory;
\* the directory has been removed after a disposable before it had failed.
C10_Witness ==
    /\ DisposeFinished
    /\ Len(assets) = 2
    /\ frames[1].promise.kind = "rejected"
    /\ \E m, n \in 1..Len(disposed) :
          /\ m < n
          /\ ~disposed[m].ok
          /\ disposed[n].a = 2 /\ disposed[n].d.kind = "tempdir"


\* ------------------------------------------------- Downloader, as specified

MaxRequests == 3

\* What version and cacheId of the tool's asset resolve to.
Identity(cacheId, version) == [cacheId |-> cacheId, version |-> version]

\* A release asset at two states of its repository, and a WebFileAsset
\* constructed without a version.
Identities ==
    { Identity(Owner \o Slash \o Repo \o Slash \o V150, Text150),
      Identity(Owner \o Slash \o Repo \o Slash \o V200, << "2", ".", "0", ".", "0" >>),
      Identity(<< "h", "/", "f" >>, Undefined) }

\* Two identities the factory of one tool may come to.
SameTool(id, other) == (id.version = Undefined) <=> (other.version = Undefined)

\* A marker that is compared with nothing: every asset counts as out of date.
MarkerNeverMatches(marker, id) == FALSE

\* The recorded marker is that of the asset; an asset without a version is
\* always out of date.
MarkerMatches(marker, id) ==
    /\ marker # NoMarker
    /\ id.version # Undefined
    /\ marker = id

\* One download request for the tool.
DownloadRequest(force, id) ==
    [force |-> force, id |-> id, pc |-> "lookup", copyTo |-> FALSE, result |-> "pending",
     before |-> markers]

RequestDone(r) == r.pc = "done"

\* A download of the tool is requested, with or without force; its asset's
\* cacheId and version have been computed.
DownloadStart(force, id) ==
    /\ Len(requests) < MaxRequests
    /\ \A n \in 1..Len(requests) : RequestDone(requests[n]) /\ SameTool(requests[n].id, id)
    /\ requests' = Append(requests, DownloadRequest(force, id))
    /\ UNCHANGED markers
    /\ UNCHANGED <<dlVars, ghVars, batch>>

\* The marker is compared: on a match and without force the tool is reported
\* as already available, otherwise copyTo is called.
DownloadLookup(n) ==
    /\ n \in 1..Len(requests)
    /\ requests[n].pc = "lookup"
    /\ requests' = [requests EXCEPT ![n] =
          IF ~@.force /\ MarkerMatches(markers, @.id)
          THEN [@ EXCEPT !.pc = "done", !.result = "available"]
          ELSE [@ EXCEPT !.pc = "copyTo", !.copyTo = TRUE]]
    /\ UNCHANGED markers
    /\ UNCHANGED <<dlVars, ghVars, batch>>

\* copyTo has succeeded and the new marker is recorded.
DownloadCopied(n) ==
    /\ n \in 1..Len(requests)
    /\ requests[n].pc = "copyTo"
    /\ markers' = requests[n].id
    /\ requests' = [requests EXCEPT ![n] = [@ EXCEPT !.pc = "done", !.result = "downloaded"]]
    /\ UNCHANGED <<dlVars, ghVars, batch>>

\* copyTo has failed: the request fails and no marker is recorded.
DownloadFailed(n) ==
    /\ n \in 1..Len(requests)
    /\ requests[n].pc = "copyTo"
    /\ requests' = [requests EXCEPT ![n] = [@ EXCEPT !.pc = "done", !.result = "failed"]]
    /\ UNCHANGED markers
    /\ UNCHANGED <<dlVars, ghVars, batch>>

\* ------------------------------------------- specification: the Downloader

InitDownloader ==
    /\ DLIdle
    /\ GHIdle
    /\ ToolIdle

NextDownloader ==
    \/ \E force \in BOOLEAN, id \in Identities : DownloadStart(force, id)
    \/ \E n \in 1..Len(requests) : DownloadLookup(n)
    \/ \E n \in 1..Len(requests) : DownloadCopied(n)
    \/ \E n \in 1..Len(requests) : DownloadFailed(n)

SpecDownloader == InitDownloader /\ [][NextDownloader]_vars

\* ------------------------------------------------- claims on the Downloader

\* Two requests for the tool, one right after the other, with the same
\* cacheId and version, the second without force and finished.
SecondUnforced(m, n) ==
    /\ m \in 1..Len(requests) /\ n = m + 1 /\ n \in 1..Len(requests)
    /\ requests[m].id = requests[n].id
    /\ ~requests[n].force
    /\ RequestDone(requests[n])

Skipped(r) == ~r.copyTo /\ r.result = "available"

ForcedCopies ==
    \A n \in 1..Len(requests) :
        (requests[n].force /\ requests[n].pc # "lookup") => requests[n].copyTo

\* The marker in place was recorded by a request whose copyTo succeeded, and
\* a request whose copyTo failed or was not called has left the marker alone.
MarkerAfterSuccess ==
    /\ markers # NoMarker =>
          \E n \in 1..Len(requests) :
              /\ requests[n].result = "downloaded" /\ requests[n].copyTo
              /\ requests[n].id = markers
              /\ \A k \in (n+1)..Len(requests) : requests[k].result # "downloaded"
    /\ \A n \in 1..Len(requests) :
          requests[n].result \in {"failed", "available"} =>
              (IF n = Len(requests) THEN markers ELSE requests[n+1].before) = requests[n].before

MaxTools == 3

\* The download operation of one selected tool.
ToolOp == [pc |-> "lookup", result |-> "pending", afterFailure |-> FALSE]

OpDone(op) == op.pc = "done"
OpsFailed(ops) == { t \in 1..Len(ops) : ops[t].result = "failed" }

\* The operation of a tool ends; it notes whether another had failed by then.
OpEnds(ops, t, result) ==
    [ops EXCEPT ![t] = [pc |-> "done", result |-> result,
                        afterFailure |-> OpsFailed(ops) # {}]]

\* run() dispatches the download of each of the n selected tools at once.
BatchRun(n, force) ==
    /\ batch.state = "idle"
    /\ n \in 1..MaxTools
    /\ batch' = [batch EXCEPT !.state = "running", !.force = force,
                              !.ops = [t \in 1..n |-> ToolOp]]
    /\ UNCHANGED <<dlVars, ghVars, markers, requests>>

\* The tool's marker is compared: on a match and without force the tool is
\* already available, otherwise its copyTo is called.
BatchLookup(t, match) ==
    /\ t \in 1..Len(batch.ops)
    /\ batch.ops[t].pc = "lookup"
    /\ batch' = [batch EXCEPT !.ops =
          IF match /\ ~batch.force
          THEN OpEnds(@, t, "available")
          ELSE [@ EXCEPT ![t].pc = "copyTo"]]
    /\ UNCHANGED <<dlVars, ghVars, markers, requests>>

\* copyTo of the tool's asset has succeeded and its marker is recorded.
BatchCopied(t) ==
    /\ t \in 1..Len(batch.ops)
    /\ batch.ops[t].pc = "copyTo"
    /\ batch' = [batch EXCEPT !.ops = OpEnds(@, t, "downloaded")]
    /\ UNCHANGED <<dlVars, ghVars, markers, requests>>

\* Resolving the tool's asset, or its copyTo, has failed.
BatchFailed(t) ==
    /\ t \in 1..Len(batch.ops)
    /\ batch.ops[t].pc \in {"lookup", "copyTo"}
    /\ batch' = [batch EXCEPT !.ops = OpEnds(@, t, "failed")]
    /\ UNCHANGED <<dlVars, ghVars, markers, requests>>

\* A run that gives up at the first failure.
BatchFailFast ==
    /\ batch.state = "running"
    /\ OpsFailed(batch.ops) # {} \/ \A t \in 1..Len(batch.ops) : OpDone(batch.ops[t])
    /\ batch' = [batch EXCEPT !.failures = OpsFailed(batch.ops),
                              !.state = IF OpsFailed(batch.ops) = {}
                                        THEN "resolved" ELSE "rejected"]
    /\ UNCHANGED <<dlVars, ghVars, markers, requests>>

\* Every operation has settled: run() reports the failures there were, all
\* of them, or succeeds.
BatchSettled ==
    /\ batch.state = "running"
    /\ \A t \in 1..Len(batch.ops) : OpDone(batch.ops[t])
    /\ batch' = [batch EXCEPT !.failures = OpsFailed(batch.ops),
                              !.state = IF OpsFailed(batch.ops) = {}
                                        THEN "resolved" ELSE "rejected"]
    /\ UNCHANGED <<dlVars, ghVars, markers, requests>>

\* ---------------------------------------- specification: the batch run

InitBatch ==
    /\ DLIdle
    /\ GHIdle
    /\ ToolIdle

NextBatch ==
    \/ \E n \in 1..MaxTools, force \in BOOLEAN : BatchRun(n, force)
    \/ \E t \in 1..MaxTools, match \in BOOLEAN : BatchLookup(t, match)
    \/ \E t \in 1..MaxTools : BatchCopied(t)
    \/ \E t \in 1..MaxTools : BatchFailed(t)
    \/ BatchSettled

\* An operation that can take a step takes one in the end, and so does run().
SpecBatch == InitBatch /\ [][NextBatch]_vars /\ WF_vars(NextBatch)

\* ------------------------------------------------- claims on the batch run

BatchReported == batch.state \in {"resolved", "rejected"}

\* Nothing is reported before every operation has settled, and what is
\* reported is every failure there was.
ReportsAfterAll ==
    BatchReported =>
        /\ \A t \in 1..Len(batch.ops) : OpDone(batch.ops[t])
        /\ batch.failures = OpsFailed(batch.ops)
        /\ (batch.state = "rejected") <=> (batch.failures # {})

\* An operation that has not ended can take its next step whatever has
\* become of the others.
NotPrevented ==
    \A t \in 1..Len(batch.ops) :
        /\ batch.ops[t].pc = "lookup" => ENABLED BatchLookup(t, FALSE)
        /\ batch.ops[t].pc = "copyTo" => ENABLED BatchCopied(t)

\* C11: in a batch run the per-tool downloads are dispatched together; the
\* failure of one keeps no other from running to completion, in any
\* interleaving, and the batch reports the failures, all of them, only
\* after every per-tool operation has settled.
C11_BatchSettlesAll ==
    /\ [](ReportsAfterAll /\ NotPrevented)
    /\ \A t \in 1..MaxTools :
          (t \in 1..Len(batch.ops)) ~> (t \in 1..Len(batch.ops) /\ OpDone(batch.ops[t]))
    /\ <>BatchReported

\* Three tools were dispatched; one failed while the others were under way,
\* they were downloaded after that, and the run has reported the failure.
C11_Witness ==
    /\ batch.state = "rejected"
    /\ Len(batch.ops) = 3
    /\ Cardinality(batch.failures) = 1
    /\ \A t \in 1..3 : t \notin batch.failures =>
          batch.ops[t].result = "downloaded" /\ batch.ops[t].afterFailure


\* ------------------------- specification: version and cacheId of an archive

\* An ArchiveFileAsset and the asset it wraps, of every kind.
ArchiveChains ==
    { << ArchiveFileAsset(2, 1), sub >> :
        sub \in GitHubAssets \cup { WebFileAsset("tool.tgz", << "1" >>),
                                   WebFileAsset("tool.tgz", Undefined),
                                   LocalFileAsset("tool.tgz") } }
    \cup { << ArchiveFileAsset(2, 0), ArchiveFileAsset(3, 1),
              WebFileAsset("tool.tgz", << "1" >>) >> }

InitArchive ==
    /\ DLIdle
    /\ ToolIdle
    /\ assets \in ArchiveChains
    /\ obj = [a \in 1..Len(assets) |-> NewObject(assets[a])]
    /\ github \in GitHubRepos
    /\ OCTOKIT = {}
    /\ frames = NoFrames
    /\ api = << >>
    /\ budget = MaxCalls
    /\ overlapped = FALSE
    /\ disposing = << >>
    /\ disposed = << >>

NextArchive ==
    \/ \E a \in 1..Len(assets), op \in {"version", "cacheId"} : CallStart(a, op, Undefined)
    \/ \E a \in 1..Len(assets) : ReleaseListReleases(a)
    \/ \E a \in 1..Len(assets) : ReleaseListed(a)
    \/ \E a \in 1..Len(assets) : ReleaseListFailed(a)
    \/ \E f \in 1..Len(frames) : ReleaseGetterSettled(f)
    \/ \E f \in 1..Len(frames) : ResolveRefOctokit(f)
    \/ \E f \in 1..Len(frames), sha \in SHAs : ResolveRefDone(f, sha)
    \/ \E f \in 1..Len(frames) : FrameFails(f)
    \/ \E a \in 1..Len(assets) : WorkflowListRuns(a)
    \/ \E a \in 1..Len(assets) : WorkflowListed(a)
    \/ \E a \in 1..Len(assets) : WorkflowListFailed(a)
    \/ \E f \in 1..Len(frames) : WorkflowGetterSettled(f)

SpecArchive == InitArchive /\ [][NextArchive]_vars

\* ---------------------------------------------------- claims on the archive

\* The invocation is a read of op on instance a that has resolved.
ReadOf(fr, a, op) ==
    /\ fr.op = op
    /\ fr.via = a \/ (fr.via = 0 /\ fr.a = a)
    /\ fr.promise.kind = "resolved"

\* With the reads one after the other, op read on an archive gives what op
\* read on its subject gives.
SameAsSubject(op) ==
    ~overlapped =>
        \A a \in 1..Len(assets) : \A f, g \in 1..Len(frames) :
            (/\ assets[a].kind = "archive"
             /\ ReadOf(frames[f], a, op)
             /\ ReadOf(frames[g], assets[a].subject, op))
                => frames[f].promise.value = frames[g].promise.value

\* C12: version and cacheId of an ArchiveFileAsset are version and cacheId
\* of the asset it wraps, whatever the kind of that asset.
C12_ArchiveIdentityIsSubjects == SameAsSubject("version") /\ SameAsSubject("cacheId")

\* C12 for version only, which is the getter ArchiveFileAsset defines.
C12_ArchiveVersionIsSubjects == SameAsSubject("version")

\* cacheId was read on an archive and then on the WebFileAsset it wraps: the
\* archive has none, the subject has its host and path.
C12_Witness ==
    /\ ~overlapped
    /\ Len(frames) = 2
    /\ assets[1].kind = "archive" /\ assets[2].kind = "web"
    /\ ReadOf(frames[1], 1, "cacheId") /\ frames[1].promise.value = Undefined
    /\ ReadOf(frames[2], 2, "cacheId") /\ frames[2].promise.value = WebCacheId(assets[2])

\* version was read on an archive and on the release asset it wraps, and
\* is the same.
C12_WitnessVersion ==
    /\ ~overlapped
    /\ Len(frames) = 2
    /\ assets[1].kind = "archive" /\ assets[2].kind = "release"
    /\ ReadOf(frames[1], 1, "version") /\ ReadOf(frames[2], 2, "version")
    /\ frames[1].promise.value = Text150 /\ frames[2].promise.value = Text150


\* ------------------------------------- specification: a workflow asset

MaxRuns == 3
\* Invocations on the workflow asset whose resolution is looked at.
WorkflowCalls == 1

RunStatuses == { "success", "failure", "cancelled" }

\* The runs of the workflow at GitHub, most recent first: the more recent a
\* run, the higher its id.
RunListings ==
    { [i \in 1..Len(st) |-> Run(Len(st) + 1 - i, st[i])] : st \in SeqsUpTo(RunStatuses, MaxRuns) }

InitWorkflow ==
    /\ DLIdle
    /\ ToolIdle
    /\ assets = << GitHubWorkflowAsset("build.yml", ArtifactPattern, "tok") >>
    /\ obj = << NewObject(assets[1]) >>
    /\ \E runs \in RunListings : github = [releases |-> << >>, runs |-> runs]
    /\ OCTOKIT = {}
    /\ frames = NoFrames
    /\ api = << >>
    /\ budget = WorkflowCalls
    /\ overlapped = FALSE
    /\ disposing = << >>
    /\ disposed = << >>

NextWorkflow ==
    \/ \E op \in Ops, dest \in {Dest, Undefined} : CallStart(1, op, dest)
    \/ WorkflowListRuns(1)
    \/ WorkflowListed(1)
    \/ WorkflowListFailed(1)
    \/ \E f \in 1..Len(frames) : WorkflowGetterSettled(f)
    \/ \E f \in 1..Len(frames) : WorkflowCopyOctokit(f)
    \/ \E f \in 1..Len(frames) : WorkflowMkTempDir(f)
    \/ \E f \in 1..Len(frames) : WorkflowCopyRun(f)
    \/ \E f \in 1..Len(frames), names \in ArtifactListings : WorkflowArtifactsListed(f, names)
    \/ \E f \in 1..Len(frames), exists \in BOOLEAN : WorkflowAssureFile(f, exists)
    \/ \E f \in 1..Len(frames) : WorkflowDownloadOctokit(f)
    \/ \E f \in 1..Len(frames) : WorkflowArtifactStored(f)
    \/ \E f \in 1..Len(frames) : Extracted(f)
    \/ \E f \in 1..Len(frames) : FrameFails(f)

SpecWorkflow == InitWorkflow /\ [][NextWorkflow]_vars

\* ------------------------------------------- claims on the workflow asset

Successful(runs) == { i \in 1..Len(runs) : runs[i].status = "success" }

\* The id of the most recent successful run: no successful run is listed
\* before it.
MostRecentSuccessful(runs) ==
    runs[CHOOSE i \in Successful(runs) : \A j \in Successful(runs) : i <= j].id

WorkflowAssets == { a \in 1..Len(assets) : assets[a].kind = "workflow" }

UsedMissingRun(fr) ==
    /\ fr.a \in WorkflowAssets
    /\ Successful(github.runs) = {}
    /\ obj[fr.a].lastWorkflowRunPromise.state = "resolved"
    /\ ~Running(fr)
    /\ fr.promise.kind = "rejected" => fr.promise.error.kind \notin {"IOError", "RequestError"}

\* C14: when the workflow has no successful run, version, cacheId and copyTo
\* of a GitHubWorkflowAsset each fail with an error whose message names the
\* workflow searched and the repository, and none resolves to a value.
C14_NoRunDescriptiveError ==
    \A f \in 1..Len(frames) :
        UsedMissingRun(frames[f]) =>
            /\ frames[f].promise.kind = "rejected"
            /\ Occurs(<< assets[frames[f].a].workflow >>, frames[f].promise.error.text)
            /\ Occurs(assets[frames[f].a].owner, frames[f].promise.error.text)
            /\ Occurs(assets[frames[f].a].repo, frames[f].promise.error.text)

\* C14 without the message: with no successful run none of the three
\* resolves to a value.
C14_NoRunRejects ==
    \A f \in 1..Len(frames) :
        UsedMissingRun(frames[f]) => frames[f].promise.kind = "rejected"

\* version has failed on a workflow without a successful run, with the
\* TypeError of reading `id` of undefined.
C14_Witness ==
    /\ Successful(github.runs) = {} /\ Len(github.runs) > 0
    /\ \E f \in 1..Len(frames) :
          /\ frames[f].op = "version"
          /\ frames[f].promise = PRejected(RunUndefined)


\* ------------------------------------------------ claims on a failed lookup

\* The field an instance keeps its lookup in.
MemoOf(o, kind) == IF kind = "release" THEN o.releasePromise ELSE o.lastWorkflowRunPromise

LookupFailed(a) ==
    /\ assets[a].kind \in {"release", "workflow"}
    /\ MemoOf(obj[a], assets[a].kind).state = "rejected"

\* A step taken while the lookup of instance a is in its failed state.
FailedIsFinal(a) ==
    LET m == MemoOf(obj[a], assets[a].kind) IN
    /\ MemoOf(obj'[a], assets[a].kind) = m
    /\ Requests(a, LookupEndpoint(assets[a].kind))'
          = Requests(a, LookupEndpoint(assets[a].kind))
    /\ \A f \in 1..Len(frames) :
          (frames[f].a = a /\ Running(frames[f]) /\ ~Running(frames'[f])) =>
              /\ frames'[f].promise.kind = "rejected"
              /\ frames[f].pc # "mkTempDir" => frames'[f].promise.error = m.error

\* C17: once listReleases of a release asset or listWorkflowRuns of a
\* workflow asset has failed, the stored failure never changes, no further
\* lookup request is sent for the instance, and no version, cacheId or copyTo
\* request on it resolves: each one that comes to read the lookup rejects
\* with the error of the lookup (a copyTo of a workflow asset reads it after
\* making its temporary directory).
C17_FailedLookupIsFinal ==
    [][\A a \in 1..Len(assets) : LookupFailed(a) => FailedIsFinal(a)]_vars

\* The lookup failed during a first request; a request made after that one
\* had settled has failed with the same error, and one lookup was sent.
C17_Witness ==
    /\ ~overlapped
    /\ Len(frames) = 2
    /\ LookupFailed(1)
    /\ \A g \in 1..2 :
          /\ frames[g].promise.kind = "rejected"
          /\ frames[g].promise.error = MemoOf(obj[1], assets[1].kind).error
    /\ frames[2].op = "copyTo"
    /\ Cardinality(Lookups(1)) = 1


\* ------------------------------ specification: downloadFile until it settles

\* line 37 with MaxHops follow-ups already in the chain: downloadFile calls
\* itself again all the same. The follow-ups between the caller's invocation
\* and the newest one only hand an outcome on (.then(resolve, reject)) and
\* are all unsettled, so the oldest of them is left out of the chain.
DLFollowOn(i, res) ==
    /\ i = Len(calls)
    /\ Len(calls) = MaxHops + 1
    /\ calls[i].state = "requested"
    /\ IsRedirect(res)
    /\ LET c == [calls[i] EXCEPT !.hasRes = TRUE, !.res = res, !.state = "redirected"] IN
         calls' = << calls[1] >> \o SubSeq(calls, 3, Len(calls) - 1)
                      \o << c, Invocation(res.headers.location,
                                          RedirectHeaders(calls[i].headers)) >>
    /\ UNCHANGED <<file, writes>>
    /\ UNCHANGED ghVars
    /\ UNCHANGED toolVars

NextSettle ==
    \/ \E i \in 1..(MaxHops + 1), res \in Responses : DLResponse(i, res)
    \/ \E i \in 1..(MaxHops + 1), res \in Responses : DLFollowOn(i, res)
    \/ \E i \in 1..(MaxHops + 1) : DLRequestError(i)
    \/ \E i \in 1..(MaxHops + 1) : DLOpen(i)
    \/ \E i \in 1..(MaxHops + 1) : DLPipe(i)
    \/ \E i \in 1..(MaxHops + 1) : DLWriteError(i)
    \/ \E i \in 1..(MaxHops + 1) : DLFinish(i)
    \/ \E i \in 1..(MaxHops + 1) : DLSettleFromRedirect(i)

\* Every request gets its response or its error, every write stream its
\* 'finish' or 'error', every outcome is handed on: no step that can be
\* taken is put off for ever.
InitSettle == DLInit /\ GHIdle /\ ToolIdle

SpecSettle == InitSettle /\ [][NextSettle]_vars /\ WF_vars(NextSettle)

\* ------------------------------------------------- claims on settling

CallerSettled == calls[1].promise.kind # "pending"

FollowsRedirect ==
    \E i \in 1..(MaxHops + 1), res \in Responses : DLResponse(i, res) /\ IsRedirect(res)

FollowsRedirectOn == \E i \in 1..(MaxHops + 1), res \in Responses : DLFollowOn(i, res)

\* C16: every call of downloadFile eventually resolves or rejects, whatever
\* the server answers, sequences of 301/302 redirects included, as long as
\* every request is answered or fails and every write stream finishes or
\* fails.
C16_EveryCallSettles == <>CallerSettled

\* What the code gives: a call that is redirected only finitely often settles.
C16_SettlesUnlessRedirectedForever ==
    <>[][~FollowsRedirect /\ ~FollowsRedirectOn]_vars => <>CallerSettled

\* The call has been redirected back to the URL it started from, and is
\* still unsettled.
C16_Witness ==
    /\ Len(calls) = MaxHops + 1
    /\ ~CallerSettled
    /\ calls[Len(calls)].state = "requested"
    /\ calls[Len(calls)].url = calls[1].url
    /\ calls[Len(calls) - 1].url # calls[1].url


\* -------------------------------- specification: the registry of clients

\* options.token: none, the empty string, a token.
Tokens == { Absent, "", "tok" }

\* Two instances, each with a token of its own choice.
RegistryAssets ==
    { << GitHubReleaseAsset(StringTag(Text150), "tool.tgz", t1),
         GitHubWorkflowAsset("build.yml", ArtifactPattern, t2) >> : t1, t2 \in Tokens }
    \cup { << GitHubRepoAsset(Absent, 1, t1), GitHubRepoAsset("dev", 1, t2) >> : t1, t2 \in Tokens }

InitRegistry ==
    /\ DLIdle
    /\ ToolIdle
    /\ assets \in RegistryAssets
    /\ obj = [a \in 1..Len(assets) |-> NewObject(assets[a])]
    /\ github = [releases |-> << V200, V150, V100 >>, runs |-> BuildRuns]
    /\ OCTOKIT = {}
    /\ frames = NoFrames
    /\ api = << >>
    /\ budget = MaxCalls
    /\ overlapped = FALSE
    /\ disposing = << >>
    /\ disposed = << >>

NextRegistry ==
    \/ \E a \in 1..Len(assets), op \in Ops : CallStart(a, op, IF op = "copyTo" THEN Dest ELSE Undefined)
    \/ \E a \in 1..Len(assets) : ReleaseListReleases(a)
    \/ \E a \in 1..Len(assets) : ReleaseListed(a)
    \/ \E f \in 1..Len(frames) : ReleaseGetterSettled(f)
    \/ \E f \in 1..Len(frames) : FindReleaseAssetOctokit(f)
    \/ \E f \in 1..Len(frames) : FindReleaseAssetRelease(f)
    \/ \E f \in 1..Len(frames) : ResolveRefOctokit(f)
    \/ \E f \in 1..Len(frames) : ResolveRefDone(f, "sha1")
    \/ \E f \in 1..Len(frames) : RepoMkTempDir(f)
    \/ \E f \in 1..Len(frames) : DownloadRepoOctokit(f)
    \/ \E a \in 1..Len(assets) : WorkflowListRuns(a)
    \/ \E a \in 1..Len(assets) : WorkflowListed(a)
    \/ \E f \in 1..Len(frames) : WorkflowGetterSettled(f)
    \/ \E f \in 1..Len(frames) : WorkflowCopyOctokit(f)
    \/ \E f \in 1..Len(frames) : WorkflowMkTempDir(f)
    \/ \E f \in 1..Len(frames) : WorkflowCopyRun(f)
    \/ \E f \in 1..Len(frames) : WorkflowArtifactsListed(f, << DocsArtifact, ToolArtifact >>)
    \/ \E f \in 1..Len(frames) : WorkflowAssureFile(f, FALSE)
    \/ \E f \in 1..Len(frames) : WorkflowDownloadOctokit(f)

SpecRegistry == InitRegistry /\ [][NextRegistry]_vars

\* ---------------------------------------------------- claims on the registry

OneClientPerKey == \A e1, e2 \in OCTOKIT : e1.key = e2.key => e1 = e2

\* Tokens of one key get one client.
SameTokenSameClient ==
    \A t1, t2 \in Tokens :
        TokenKey(t1) = TokenKey(t2) => OctokitFor(OCTOKIT, t1) = OctokitFor(OCTOKIT, t2)

\* What is registered stays, as it is, and a token that has a client keeps
\* getting that one.
RegistryStable ==
    /\ \A e \in OCTOKIT : e \in OCTOKIT'
    /\ \A t \in Tokens :
          (\E e \in OCTOKIT : e.key = TokenKey(t)) =>
              OctokitFor(OCTOKIT', t) = OctokitFor(OCTOKIT, t)

\* C15: whatever the interleaving of the getOctokit calls of the asset
\* instances, the registry holds at most one client per token key (no token
\* is the key ''), an entry once made is never replaced nor removed, and all
\* calls with one token return one client.
C15_RegistryAppendOnly ==
    /\ [](OneClientPerKey /\ SameTokenSameClient)
    /\ [][RegistryStable]_vars

\* An instance without a token and one with the empty token have both sent a
\* request: the registry holds the one client of key ''.
C15_Witness ==
    /\ assets[1].token # assets[2].token
    /\ TokenKey(assets[1].token) = TokenKey(assets[2].token)
    /\ \E k \in 1..Len(api) : api[k].a = 1
    /\ \E k \in 1..Len(api) : api[k].a = 2
    /\ OCTOKIT = { [key |-> "", client |-> 1] }


\* ------------------------------------------------------------ specifications

\* One call of downloadFile, with every answer a server may give.
Init == DLInit /\ GHIdle /\ ToolIdle
Spec == Init /\ [][Next]_vars

====
